---------------------------- MODULE Spec2Model ----------------------------
(***************************************************************************)
(* A model of galsim/lensing_ps.py: the PowerSpectrum class (buildGrid,    *)
(* subsampleGrid, nRandCallsForBuildGrid, the position queries) and the    *)
(* PowerSpectrumRealizer that draws one realization in Fourier space.      *)
(*                                                                         *)
(* Numbers.  Lengths (grid_spacing, pixel_size, center, bounds) are exact  *)
(* rationals <<num, den>>.  A wavenumber k is carried as q = (k/pi)^2, a   *)
(* rational, so that every comparison the code makes between wavenumbers   *)
(* is decided exactly.  A Fourier coefficient                              *)
(*     amplitude * (r1 + 1j*r2) * ISQRT2,  amplitude = sqrt(P)/pixel_size  *)
(* is carried as the record [pw, re, im] of the power P and the two draws. *)
(* The real-space arrays returned by np.fft.ifft2 / irfft2 are carried as  *)
(* the realization they are the transform of plus an index map.            *)
(***************************************************************************)
EXTENDS Integers, Sequences, FiniteSets, TLC

\* ------------------------------------------------------------------ bounds
MaxNgrid   == 3     \* largest ngrid handed to buildGrid
MaxFactor  == 2     \* largest kmin_factor / kmax_factor / subsample_fac
MaxNTot    == 6     \* cap on ngrid*kmin_factor*kmax_factor
MaxSpacing == 3     \* largest grid_spacing (arcsec) handed to buildGrid
NSeeds     == 2     \* number of distinct seeds of the random source
StartPos   == 5     \* a non-zero position at which a handed-in rng may stand
MaxWraps   == 2     \* largest number of extents a position is moved by
MaxLen     == 2     \* longest list / tuple / array handed to theoryToObserved
MaxSide    == 3     \* largest small image handed to _wrap_image
MaxBorder  == 4     \* largest small border handed to _wrap_image

\* --------------------------------------------------------------- rationals
RECURSIVE GCD(_, _)
GCD(a, b) == IF b = 0 THEN a ELSE GCD(b, a % b)

Abs(x) == IF x < 0 THEN -x ELSE x

\* the rational n/d in lowest terms with a positive denominator (d # 0)
Rat(n, d) ==
    LET g == GCD(Abs(n), Abs(d))
        s == IF d < 0 THEN -1 ELSE 1
    IN  <<(s * n) \div g, (s * d) \div g>>

\* the one element of a singleton set: Only({e(x) : x \in {v}}) evaluates v once
Only(S) == CHOOSE x \in S : TRUE

RInt(n)     == <<n, 1>>
RAdd(a, b)  == Rat(a[1] * b[2] + b[1] * a[2], a[2] * b[2])
RSub(a, b)  == Rat(a[1] * b[2] - b[1] * a[2], a[2] * b[2])
RMul(a, b)  == Rat(a[1] * b[1], a[2] * b[2])
RDiv(a, b)  == Rat(a[1] * b[2], a[2] * b[1])
RLess(a, b) == a[1] * b[2] < b[1] * a[2]
RZero       == <<0, 1>>
ROne        == <<1, 1>>
\* Python's a // b on numbers: the floor of the quotient (TLA+'s \div floors)
RFloorDiv(a, b) == RInt((a[1] * b[2]) \div (a[2] * b[1]))

\* ------------------------------------------------------- values and inputs
None  == "None"

\* a position, galsim.PositionD(x, y)
Pos(x, y) == <<x, y>>
PosAdd(p, d) == <<RAdd(p[1], d[1]), RAdd(p[2], d[2])>>
PosScale(p, c) == <<RMul(p[1], c), RMul(p[2], c)>>

\* A power function of the caller: a step function of k, or a tabulated
\* LookupTable with a domain.  Thresholds and domains are given as (k/pi)^2.
\*   kind "step":  lo for q < thr, hi for q >= thr
\*   kind "table": the value val on [xmin, xmax]
Step(lo, hi, thr)       == [kind |-> "step", lo |-> lo, hi |-> hi, thr |-> thr,
                            xmin |-> RZero, xmax |-> RZero]
Table(val, xmin, xmax)  == [kind |-> "table", lo |-> val, hi |-> val, thr |-> RZero,
                            xmin |-> xmin, xmax |-> xmax]
NoPF == [kind |-> "none", lo |-> 0, hi |-> 0, thr |-> RZero,
         xmin |-> RZero, xmax |-> RZero]

Flat    == Step(1, 1, ROne)              \* lambda k: 1 everywhere
NegHigh == Step(1, -1, Rat(3, 2))       \* negative for k >= pi * sqrt(3/2)
NegLow  == Step(-1, 4, Rat(1, 2))        \* negative for k < pi/sqrt(2)
Tab     == Table(1, Rat(1, 9), RInt(2))  \* LookupTable on pi/3 <= k <= sqrt(2) pi

\* The description a PowerSpectrum is constructed with.
PSpec(e, b, delta2, scale) ==
    [e_power_function |-> e, b_power_function |-> b, delta2 |-> delta2, scale |-> scale]

\* ------------------------------------------------- the random source (rng)
\* The value of draw number q of the Gaussian sequence seeded with seed.
Draw(seed, q) == ((3 * seed + q * q + q) % 5) - 2

\* galsim.utilities.rand_arr(shape, gd): one draw per element, row by row.
\* Returns the array; the caller advances the position by RandArrLen.
RandArrLen(ny, w) == ny * w
RandArr(ny, w, seed, pos) ==
    [c \in (0 .. ny - 1) \X (0 .. w - 1) |-> Draw(seed, pos + c[1] * w + c[2])]

\* ------------------------------------------- PowerSpectrumRealizer: slices
\* set_size: the index slices, as the sequences of indices they select.
ikx(n)  == [j \in 1 .. (n \div 2 + 1) |-> j - 1]             \* slice(0, nx//2+1)
ikxp(n) == [j \in 1 .. ((n + 1) \div 2 - 1) |-> j]           \* slice(1, (nx+1)//2)
ikxn(n) == [j \in 1 .. (n - 1 - n \div 2) |-> n - j]         \* slice(-1, nx//2, -1)
Range(s) == {s[j] : j \in DOMAIN s}
One(i)  == <<i>>

\* np.fft.fftfreq(n) * n: the signed frequency index of array index i.
FreqIdx(i, n) == IF i <= (n - 1) \div 2 THEN i ELSE i - n

\* (k/pi)^2 at array cell (iy, ix): k = 2 pi * sqrt(fx^2 + fy^2) / (n * pixel_size)
QCell(iy, ix, n, pixel) ==
    LET fx == FreqIdx(ix, n)
        fy == FreqIdx(iy, n)
    IN  RDiv(RInt(4 * (fx * fx + fy * fy)), RMul(RInt(n * n), RMul(pixel, pixel)))

\* _generate_power_array: the scalar |k| grid on the positive kx, ky, with the
\* value at k = 0 fudged to k[1,0].  Defined when the grid has a row 1.
KGrid(n, pixel) ==
    [c \in Range(ikx(n)) \X Range(ikx(n)) |->
        IF c = <<0, 0>> THEN QCell(1, 0, n, pixel) ELSE QCell(c[1], c[2], n, pixel)]

\* ------------------------------------------------ the power handed to psr
ZeroPw == [raw |-> 0, conv |-> <<"id", ROne>>, bl |-> <<"none", ROne>>]

\* _hard_cutoff(k, k_max): float(k < k_max), on q = (k/pi)^2
HardCutoff(q, qmax) == IF RLess(q, qmax) THEN ROne ELSE RZero

\* bandlimit_func(k, k_max) of buildGrid, by the bandlimit keyword.  The soft
\* filter (arctan roll-off) is strictly between 0 and 1 and is kept symbolic.
BandlimitFunc(bandlimit, q, qmax) ==
    CASE bandlimit = "hard" -> <<"hard", HardCutoff(q, qmax)>>
      [] bandlimit = "soft" -> <<"soft", RDiv(q, qmax)>>
      [] OTHER              -> <<"none", ROne>>

\* The caller's function evaluated at one k (given as q).
PFValue(pf, q) == IF RLess(q, pf.thr) THEN pf.lo ELSE pf.hi

\* A LookupTable raises when evaluated outside [x_min, x_max].
PFOutOfRange(pf, q) == pf.kind = "table" /\ (RLess(q, pf.xmin) \/ RLess(pf.xmax, q))

\* p_E / p_B of buildGrid, evaluated at q: the lambda chosen by delta2 / scale.
\* pfn = [pf, delta2, scale, bandlimit, qmax]
PLambda(pfn, q) ==
    LET qs == RMul(q, RMul(pfn.scale, pfn.scale))     \* (self.scale * k)
        bl == BandlimitFunc(pfn.bandlimit, qs,
                            RMul(pfn.qmax, RMul(pfn.scale, pfn.scale)))
    IN  IF pfn.delta2
        THEN [raw |-> PFValue(pfn.pf, qs), conv |-> <<"d2", q>>, bl |-> bl]
        ELSE IF pfn.scale # ROne
        THEN [raw |-> PFValue(pfn.pf, qs), conv |-> <<"sc", pfn.scale>>, bl |-> bl]
        ELSE [raw |-> PFValue(pfn.pf, q), conv |-> <<"id", ROne>>,
              bl |-> BandlimitFunc(pfn.bandlimit, q, pfn.qmax)]

\* the k the caller's function is evaluated at inside the lambda
PLambdaArg(pfn, q) ==
    IF pfn.delta2 \/ pfn.scale # ROne THEN RMul(q, RMul(pfn.scale, pfn.scale)) ELSE q

\* the float value of a power: zero, negative (P_k < 0) or positive
IsZeroPw(pw) == pw.raw = 0 \/ pw.bl = <<"hard", RZero>>
IsNegPw(pw)  == pw.raw < 0 /\ pw.bl # <<"hard", RZero>>

\* ---------------------------------- PowerSpectrumRealizer: the power array
\* a variant of FixZeroPower that keeps what the function returned
FixZeroPowerNot(c, pw) == pw
\* P_k[0,0] = type(P_k[0,1])(0.): "fix the k=0 value of power to zero"
FixZeroPower(c, pw) == IF c = <<0, 0>> THEN ZeroPw ELSE pw

NoArr == [c \in {} |-> ZeroPw]     \* no array (None)

\* np.any(P_k < 0)
AnyNegative(P_k) == \E c \in DOMAIN P_k : IsNegPw(P_k[c])

\* _generate_power_array(power_function) on an n x n grid.  The result is
\*   [err |-> "IndexError"]       no row 1 / column 1 to read (n < 2)
\*   [err |-> "NotDefinedForFullRange"]  the range check of lines 1698-1703
\*   [err |-> "TableOutOfRange"]  the LookupTable, called at line 1704,
\*                                refused a k it was evaluated at
\*   [err |-> "NegativePower"]    np.any(P_k < 0)
\*   [err |-> "ok", arr |-> the (ny, nx//2+1) power array]
\* pfn.bare says the function handed in is itself a LookupTable (never the
\* case for the lambdas buildGrid hands in).
GeneratePowerArray(n, pixel, pfn) ==
    IF n \div 2 < 1 THEN [err |-> "IndexError", arr |-> NoArr]
    ELSE
    LET k    == KGrid(n, pixel)
        half == DOMAIN k
        \* isinstance(power_function, galsim.LookupTable) and
        \* mink < x_min or maxk > x_max
        chk  == pfn.bare /\ \E c \in half : PFOutOfRange(pfn.pf, k[c])
        bad  == \E c \in half : PFOutOfRange(pfn.pf, PLambdaArg(pfn, k[c]))
        \* P_k = power_function(k); P_k[0,0] = 0
        P_k  == [c \in half |-> FixZeroPower(c, PLambda(pfn, k[c]))]
        yp   == ikxp(n)
        yn   == ikxn(n)
        \* power_array[iky, ikx] = P_k ; power_array[ikyn, ikx] = P_k[ikyp, ikx]
        arr  == [c \in (0 .. n - 1) \X Range(ikx(n)) |->
                    IF c[1] \in Range(ikx(n)) THEN P_k[c]
                    ELSE LET j == CHOOSE j \in DOMAIN yn : yn[j] = c[1]
                         IN  P_k[<<yp[j], c[2]>>]]
    IN  IF chk THEN [err |-> "NotDefinedForFullRange", arr |-> NoArr]
        ELSE IF bad THEN [err |-> "TableOutOfRange", arr |-> NoArr]
        ELSE IF AnyNegative(P_k)
        THEN [err |-> "NegativePower", arr |-> NoArr]
        ELSE [err |-> "ok", arr |-> arr]

\* set_power(p_E, p_B): amplitude_E, then amplitude_B; the first error wins.
\* An absent function (p_E is None) gives no amplitude.
SetPower(n, pixel, pE, pB) ==
    LET aE == IF pE.pf.kind = "none" THEN [err |-> "ok", arr |-> NoArr]
              ELSE GeneratePowerArray(n, pixel, pE)
        aB == IF pB.pf.kind = "none" THEN [err |-> "ok", arr |-> NoArr]
              ELSE GeneratePowerArray(n, pixel, pB)
    IN  IF aE.err # "ok" THEN [err |-> aE.err, amplitude_E |-> NoArr, amplitude_B |-> NoArr]
        ELSE IF aB.err # "ok"
        THEN [err |-> aB.err, amplitude_E |-> NoArr, amplitude_B |-> NoArr]
        ELSE [err |-> "ok", amplitude_E |-> aE.arr, amplitude_B |-> aB.arr]

\* ------------------------------ PowerSpectrumRealizer: Fourier coefficients
ZeroC  == [tag |-> "val", pw |-> ZeroPw, re |-> 0, im |-> 0]
Uninit == [tag |-> "uninit", pw |-> ZeroPw, re |-> 0, im |-> 0]   \* np.empty

\* amplitude * (r1 + 1j*r2) * ISQRT2
Coef(pw, r1, r2) ==
    IF IsZeroPw(pw) THEN ZeroC ELSE [tag |-> "val", pw |-> pw, re |-> r1, im |-> r2]

Conj(c)   == IF c.tag = "uninit" THEN c ELSE [c EXCEPT !.im = -c.im]
RealOf(c) == IF c.tag = "uninit" THEN c ELSE [c EXCEPT !.im = 0]
IsZeroC(c) == c.tag = "val" /\ (IsZeroPw(c.pw) \/ (c.re = 0 /\ c.im = 0))

\* P_k[rL, cL] = np.conj(P_k[rR, cR]) for index sequences of equal lengths
AssignConj(P, rL, cL, rR, cR) ==
    [c \in DOMAIN P |->
        IF \E a \in DOMAIN rL, b \in DOMAIN cL : c = <<rL[a], cL[b]>>
        THEN LET ab == CHOOSE ab \in (DOMAIN rL) \X (DOMAIN cL) :
                            c = <<rL[ab[1]], cL[ab[2]]>>
             IN  Conj(P[<<rR[ab[1]], cR[ab[2]]>>])
        ELSE P[c]]

\* P_k[i, j] = np.real(P_k[i, j])
AssignReal(P, i, j) == [P EXCEPT ![<<i, j>>] = RealOf(P[<<i, j>>])]

\* _make_hermitian(P_k): the part done for every n
HermitianCommon(P0, n) ==
    LET yp == ikxp(n)   \* self.ikyp
        yn == ikxn(n)   \* self.ikyn
        xp == ikxp(n)   \* self.ikxp
        xn == ikxn(n)   \* self.ikxn
        P1 == AssignConj(P0, yn, One(0), yp, One(0))
        P2 == AssignReal(P1, 0, 0)
        P3 == AssignConj(P2, yp, xn, yn, xp)
        P4 == AssignConj(P3, yn, xn, yp, xp)
    IN  AssignConj(P4, One(0), xn, One(0), xp)

\* a variant of HermitianEven without lines 1681-1682
HermitianEvenAxesOnly(P5, n) ==
    LET h == n \div 2
    IN  AssignReal(AssignReal(AssignReal(P5, h, 0), 0, h), h, h)
\* _make_hermitian(P_k): "for even nx,ny, there are a few more changes needed"
HermitianEven(P5, n) ==
    LET yp == ikxp(n)
        yn == ikxn(n)
        xp == ikxp(n)
        xn == ikxn(n)
        h  == n \div 2
        P6 == AssignConj(P5, yn, One(h), yp, One(h))
        P7 == AssignConj(P6, One(h), xn, One(h), xp)
        P8 == AssignReal(P7, h, 0)
        P9 == AssignReal(P8, 0, h)
    IN  AssignReal(P9, h, h)

\* _make_hermitian(P_k) on an n x n array
MakeHermitian(P0, n) ==
    IF n % 2 = 0 THEN HermitianEven(HermitianCommon(P0, n), n)
    ELSE HermitianCommon(P0, n)

\* One mode of __call__: E_k = np.empty((ny, nx)); E_k[:, ikx] = amplitude *
\* (r1 + 1j*r2) * ISQRT2; _make_hermitian(E_k).  r1 starts at position pos.
ModeField(n, amplitude, seed, pos) ==
    LET w  == n \div 2 + 1
        r1 == RandArr(n, w, seed, pos)
        r2 == RandArr(n, w, seed, pos + RandArrLen(n, w))
        F0 == [c \in (0 .. n - 1) \X (0 .. n - 1) |->
                 IF c[2] \in Range(ikx(n))
                 THEN Coef(amplitude[c], r1[c], r2[c]) ELSE Uninit]
    IN  MakeHermitian(F0, n)

\* the draws one mode takes: r1 then r2, each of amplitude.shape
ModeDraws(n) == 2 * RandArrLen(n, n \div 2 + 1)

\* ------------------------------------- PowerSpectrumRealizer.__call__(gd)
NoField == [c \in {} |-> ZeroC]      \* E_k = 0 / B_k = 0: the mode is absent

\* a variant of CallOrder with the B mode first
CallOrderBFirst(n, hasE, hasB) ==
    (IF hasB THEN <<<<"B", 0>>>> ELSE <<>>) \o
    (IF hasE THEN <<<<"E", IF hasB THEN ModeDraws(n) ELSE 0>>>> ELSE <<>>)
\* The order in which __call__ takes its draws: the modes present, E first.
\* Each entry is <<mode, start offset>> relative to the position at entry.
CallOrder(n, hasE, hasB) ==
    (IF hasE THEN <<<<"E", 0>>>> ELSE <<>>) \o
    (IF hasB THEN <<<<"B", IF hasE THEN ModeDraws(n) ELSE 0>>>> ELSE <<>>)

\* The draws __call__ takes from position pos on: the log, as segments
\* <<mode, "r1"|"r2", first position, length>>, and their number.
RealizerDraws(n, hasE, hasB, pos) ==
    LET ord  == CallOrder(n, hasE, hasB)
        len  == RandArrLen(n, n \div 2 + 1)
    IN  [segs |-> [j \in 1 .. 2 * Len(ord) |->
                    LET o == ord[(j + 1) \div 2]
                    IN  IF j % 2 = 1 THEN <<o[1], "r1", pos + o[2], len>>
                        ELSE <<o[1], "r2", pos + o[2] + len, len>>],
         used |-> Len(ord) * ModeDraws(n)]

\* The Fourier fields E_k, B_k that __call__ generates (the arrays g1, g2 and
\* kappa are inverse transforms of them).
RealizerCall(n, hasE, hasB, ampE, ampB, seed, pos) ==
    LET ord   == CallOrder(n, hasE, hasB)
        at(m) == pos + (CHOOSE o \in Range(ord) : o[1] = m)[2]
    IN  [E |-> IF hasE THEN ModeField(n, ampE, seed, at("E")) ELSE NoField,
         B |-> IF hasB THEN ModeField(n, ampB, seed, at("B")) ELSE NoField]

\* --------------------------------------------------- real-space arrays
\* An n x n view of a component of the realization ("g1" = real(nx *
\* ifft2(gamma_k)), "g2" = its imaginary part, "kappa" = nx * irfft2(E_k[:,
\* ikx]), "zeros" = np.zeros): element [i][j] of the view is element
\* [i*step][j*step] of the full array.
Arr(comp, n, step) == [comp |-> comp, n |-> n, step |-> step]
NoArray == Arr("none", 0, 1)
FullArr(comp, n) == Arr(comp, n, 1)
At(a, i, j) == <<i * a.step, j * a.step>>

\* a[::f, ::f] / a[slice(0, m*f, f), slice(0, m*f, f)]: m elements a side
Stride(a, m, f) == Arr(a.comp, m, a.step * f)

\* ------------------------------------------------ the PowerSpectrum object
VARIABLES
    ps,       \* e_power_function, b_power_function, delta2, scale (set by __init__)
    self,     \* the attributes buildGrid / subsampleGrid store on the instance
    rng,      \* the caller's random source: its seed and its position
    bg,       \* the most recent buildGrid call: its arguments, how it ended, what
              \* it drew and returned
    okargs,   \* the arguments of the most recent buildGrid call that succeeded
    q         \* the most recent other call: which, and how it ended

vars == <<ps, self, rng, bg, okargs, q>>

\* buildGrid lines 533-562: p_E / p_B, the lambdas handed to the realizer
PFn(pf, p, bandlimit, qmax) ==
    [pf |-> pf, delta2 |-> p.delta2, scale |-> p.scale, bandlimit |-> bandlimit,
     qmax |-> qmax, bare |-> FALSE]

\* The realization an instance holds is kept by what made it: the realizer
\* (its size, pixel and the two power functions) and the random source at
\* the call.  FieldOf gives its Fourier fields.
NoRealization == [nx |-> 0, pixel |-> RZero, pE |-> PFn(NoPF, PSpec(NoPF, NoPF, FALSE, ROne), "none", ROne),
                  pB |-> PFn(NoPF, PSpec(NoPF, NoPF, FALSE, ROne), "none", ROne),
                  seed |-> 0, pos |-> 0]
NoBounds == [xmin |-> RZero, xmax |-> RZero, ymin |-> RZero, ymax |-> RZero]

\* a fresh instance: none of the grid attributes exists (has = {})
SelfInit ==
    [has |-> {}, grid_spacing |-> RZero, center |-> Pos(RZero, RZero),
     adjust_center |-> FALSE, bounds |-> NoBounds, interpolant |-> None,
     ngrid_tot |-> 0, pixel_size |-> RZero, field |-> NoRealization,
     grid_g1 |-> NoArray, grid_g2 |-> NoArray, grid_kappa |-> NoArray,
     im_g1 |-> NoArray, im_g2 |-> NoArray, im_kappa |-> NoArray]

HasAttr(s, name) == name \in s.has

\* the constructor arguments the model starts from
PSConfigs ==
    { PSpec(Flat, NoPF, FALSE, ROne),
      PSpec(NoPF, Flat, FALSE, ROne),
      PSpec(Flat, NegHigh, FALSE, ROne),
      PSpec(Tab, Flat, FALSE, ROne),
      PSpec(NegLow, NoPF, TRUE, ROne),
      PSpec(Flat, Flat, FALSE, RInt(60)) }

\* the arguments of buildGrid (units = arcsec).  A style is one choice of the
\* keywords that do not size the grid, with the random source handed in.
Spacings == {RInt(1), RInt(MaxSpacing)}
Styles ==
    { [bandlimit |-> "hard", center |-> Pos(RZero, RZero), interpolant |-> None,
       get_convergence |-> FALSE, rng |-> [seed |-> 0, pos |-> 0]],
      [bandlimit |-> "soft", center |-> Pos(ROne, RInt(2)), interpolant |-> "linear",
       get_convergence |-> TRUE, rng |-> [seed |-> NSeeds - 1, pos |-> StartPos]],
      [bandlimit |-> "none", center |-> Pos(RZero, RZero), interpolant |-> None,
       get_convergence |-> TRUE, rng |-> [seed |-> 0, pos |-> StartPos]] }

\* How ngrid, kmin_factor and kmax_factor are passed: as the Python int n
\* ("int"), as the float of the same value, n.0 ("float"), or as the float
\* n + 0.5 ("float+half").
AllInt == [ngrid |-> "int", kmin_factor |-> "int", kmax_factor |-> "int"]

Args(s, n, kmin, kmax, st) ==
    [supplied |-> TRUE, grid_spacing |-> s, ngrid |-> n, kmin_factor |-> kmin,
     kmax_factor |-> kmax, bandlimit |-> st.bandlimit, center |-> st.center,
     interpolant |-> st.interpolant, get_convergence |-> st.get_convergence,
     rng |-> st.rng, passed |-> AllInt]

\* the grids: at most one of the factors is not 1, and the wide spacing goes
\* with a kmax_factor
Shapes ==
    { sh \in Spacings \X (1 .. MaxNgrid) \X (1 .. MaxFactor) \X (1 .. MaxFactor) :
        /\ sh[3] = 1 \/ sh[4] = 1
        /\ sh[2] * sh[3] * sh[4] <= MaxNTot
        /\ sh[1] = RInt(1) \/ sh[4] > 1 }

\* calls whose ngrid is not a positive int: ngrid = 2.0, ngrid = 2.5 and
\* ngrid = 0
OddArgs(st) ==
    { [Args(RInt(1), 2, 1, 1, st) EXCEPT !.passed.ngrid = "float"],
      [Args(RInt(1), 2, 1, 1, st) EXCEPT !.passed.ngrid = "float+half"],
      Args(RInt(1), 0, 1, 1, st) }

WrapBorder == 7      \* _wrap_image(im, border=7)
\* the smallest grid _wrap_image accepts (line 909), for the periodic queries
WrapNgrid == WrapBorder + 1

\* every style on the plain grids, one style on the others
StylesOf(sh) ==
    IF sh[3] = 1 /\ sh[4] = 1 THEN Styles
    ELSE { st \in Styles : st.bandlimit = (IF sh[4] > 1 THEN "hard" ELSE "soft") }

BuildArgs ==
    { Args(c[1][1], c[1][2], c[1][3], c[1][4], c[2]) :
        c \in { c \in Shapes \X Styles : c[2] \in StylesOf(c[1]) } }
      \cup { [Args(RInt(1), 2, 1, 1, st) EXCEPT !.bandlimit = "bogus"] :
               st \in { st \in Styles : st.bandlimit = "none" } }
      \cup { Args(RInt(1), WrapNgrid, 1, 1, st) :
               st \in { st \in Styles : st.bandlimit = "hard" } }
      \cup UNION { OddArgs(st) : st \in { st \in Styles : st.bandlimit = "hard" } }

\* buildGrid() without grid_spacing / ngrid
NoArgs == [supplied |-> FALSE, grid_spacing |-> ROne, ngrid |-> 1, kmin_factor |-> 1,
           kmax_factor |-> 1, bandlimit |-> "hard", center |-> Pos(RZero, RZero),
           interpolant |-> None, get_convergence |-> FALSE,
           rng |-> [seed |-> 0, pos |-> 0], passed |-> AllInt]

\* --------------------------------------------------------------- buildGrid
\* lines 472-505: grid_spacing, center, adjust_center, bounds, interpolant
StoreGridSpec(s, a) ==
    LET gs   == RFloorDiv(a.grid_spacing, RInt(a.kmax_factor))
        half == RDiv(RMul(RInt(a.ngrid), a.grid_spacing), RInt(2))
    IN  [s EXCEPT
           !.grid_spacing  = gs,
           !.center        = IF a.ngrid % 2 = 0
                             THEN PosAdd(a.center, PosScale(Pos(Rat(1, 2), Rat(1, 2)), gs))
                             ELSE a.center,
           !.adjust_center = (a.ngrid % 2 = 0),
           \* BoundsD(...).expand(1 + 1.e-15): the corners before the expansion
           !.bounds        = [xmin |-> RSub(a.center[1], half),
                              xmax |-> RAdd(a.center[1], half),
                              ymin |-> RSub(a.center[2], half),
                              ymax |-> RAdd(a.center[2], half)],
           !.interpolant   = IF a.interpolant = None THEN "Lanczos(5)" ELSE a.interpolant,
           !.has           = @ \cup {"grid_spacing", "center", "adjust_center",
                                     "bounds", "interpolant"}]

\* a variant of KMaxSq that reads the spacing the instance had at entry
KMaxSqStale(old, new) ==
    IF HasAttr(old, "grid_spacing") /\ old.grid_spacing # RZero
    THEN RDiv(ROne, RMul(old.grid_spacing, old.grid_spacing))
    ELSE RDiv(ROne, RMul(new.grid_spacing, new.grid_spacing))
\* line 517: k_max = np.pi / self.grid_spacing, as (k_max/pi)^2.  old is the
\* instance at entry, new the instance after lines 472-505.
KMaxSq(old, new) == RDiv(ROne, RMul(new.grid_spacing, new.grid_spacing))

\* lines 565-566
StoreGridSize(s, a) ==
    [s EXCEPT !.ngrid_tot  = a.ngrid * a.kmin_factor * a.kmax_factor,
              !.pixel_size = RDiv(a.grid_spacing, RInt(a.kmax_factor)),
              !.has        = @ \cup {"ngrid_tot", "pixel_size"}]

\* lines 568-582: store the realization, strided when a factor is not 1
StoreGrids(s, a, field) ==
    LET n      == s.ngrid_tot
        kap    == IF field.pE.pf.kind # "none" THEN "kappa" ELSE "zeros"
        cut(x) == IF a.kmin_factor # 1 \/ a.kmax_factor # 1
                  THEN Stride(x, a.ngrid, a.kmax_factor) ELSE x
        g1     == cut(FullArr("g1", n))
        g2     == cut(FullArr("g2", n))
        ka     == cut(FullArr(kap, n))
    IN  [s EXCEPT !.field = field,
                  !.grid_g1 = g1, !.grid_g2 = g2, !.grid_kappa = ka,
                  !.im_g1 = g1, !.im_g2 = g2, !.im_kappa = ka,
                  !.has = @ \cup {"grid_g1", "grid_g2", "grid_kappa",
                                  "im_g1", "im_g2", "im_kappa"}]

\* a variant of RngPosAfter for a realizer that draws before it validates
RngPosAfterDrawFirst(pos0, err, used) == pos0 + used
\* the position of the random source when buildGrid returns or raises:
\* the realizer validates the power in __init__ (set_power) and draws in
\* __call__, so a call that raises has drawn nothing.
RngPosAfter(pos0, err, used) == IF err = "ok" THEN pos0 + used ELSE pos0

Failed(s, status, pos0) ==
    [self |-> s, status |-> status, pos |-> pos0, used |-> 0, segs |-> <<>>,
     ret |-> <<>>]

\* lines 564-587: build the grid with the powers pE, pB on the instance s2
\* (after lines 472-566) and the random source at (seed, pos0)
BuildGridRealize(s2, a, pE, pB, seed, pos0) ==
    LET n     == s2.ngrid_tot
        hasE  == pE.pf.kind # "none"
        hasB  == pB.pf.kind # "none"
        rc    == RealizerDraws(n, hasE, hasB, pos0)
        field == [nx |-> n, pixel |-> s2.pixel_size, pE |-> pE, pB |-> pB,
                  seed |-> seed, pos |-> pos0]
    IN  Only({ IF err # "ok"
               THEN [Failed(s2, err, pos0) EXCEPT !.pos = RngPosAfter(pos0, err, rc.used)]
               ELSE Only({ [self |-> s3, status |-> "ok",
                            pos |-> RngPosAfter(pos0, "ok", rc.used),
                            used |-> rc.used, segs |-> rc.segs,
                            ret |-> IF a.get_convergence
                                    THEN <<s3.grid_g1, s3.grid_g2, s3.grid_kappa>>
                                    ELSE <<s3.grid_g1, s3.grid_g2>>] :
                           s3 \in {StoreGrids(s2, a, field)} }) :
               err \in {SetPower(n, s2.pixel_size, pE, pB).err} })           \* 567

\* psr(gd) for the realization fld: the Fourier fields [E, B]
FieldOf(fld) ==
    LET hasE == fld.pE.pf.kind # "none"
        hasB == fld.pB.pf.kind # "none"
    IN  Only({ RealizerCall(fld.nx, hasE, hasB, sp.amplitude_E, sp.amplitude_B,
                            fld.seed, fld.pos) :
               sp \in {SetPower(fld.nx, fld.pixel, fld.pE, fld.pB)} })

\* lines 507-566 on the instance s1 (after lines 472-505); s is the instance
\* at entry
BuildGridPower(s, s1, p, a, seed, pos0) ==
    IF s1.grid_spacing = RZero
    THEN Failed(s1, "ZeroDivisionError", pos0)                           \* 517
    ELSE IF a.bandlimit \notin {"hard", "soft", "none"}
    THEN Failed(s1, "RuntimeError", pos0)                                \* 528
    ELSE Only({ BuildGridRealize(StoreGridSize(s1, a), a,
                                 PFn(p.e_power_function, p, a.bandlimit, qmax),
                                 PFn(p.b_power_function, p, a.bandlimit, qmax),
                                 seed, pos0) :
                qmax \in {KMaxSq(s, s1)} })

\* lines 434-445: a value that is not an int and differs from its int(...)
\* raises; afterwards each of the three is the int a.ngrid, a.kmin_factor,
\* a.kmax_factor
IntegralityRaises(a) ==
    \E x \in {"ngrid", "kmin_factor", "kmax_factor"} : a.passed[x] = "float+half"

\* buildGrid(**a) on instance s with power description p and the random
\* source at (seed, pos0): the instance, the outcome and the draws.
BuildGridCall(s, p, a, seed, pos0) ==
    IF ~a.supplied THEN Failed(s, "ValueError", pos0)                    \* 431-432
    ELSE IF IntegralityRaises(a) THEN Failed(s, "ValueError", pos0)      \* 434-445
    ELSE IF a.kmax_factor = 0 THEN Failed(s, "ZeroDivisionError", pos0)  \* 473
    ELSE Only({ BuildGridPower(s, s1, p, a, seed, pos0) : s1 \in {StoreGridSpec(s, a)} })

\* -------------------------------------------------- nRandCallsForBuildGrid
\* lines 595-604: [raised, value]
NRandCalls(s, p) ==
    IF ~HasAttr(s, "ngrid_tot") THEN [raised |-> TRUE, value |-> 0]
    ELSE LET temp == 2 * (s.ngrid_tot * (s.ngrid_tot \div 2 + 1))
         IN  [raised |-> FALSE,
              value  |-> (IF p.e_power_function.kind # "none" THEN temp ELSE 0)
                       + (IF p.b_power_function.kind # "none" THEN temp ELSE 0)]

\* ----------------------------------------------------------- subsampleGrid
\* subsample_fac as the caller passes it: the Python int v, or the float v
\* (int FALSE)
Fac(int, v) == [int |-> int, v |-> v]

\* the calls of subsampleGrid: <<subsample_fac, get_convergence>>
SubsampleCalls ==
    {<<Fac(TRUE, v), FALSE>> : v \in 0 .. MaxFactor}
        \cup {<<Fac(TRUE, MaxFactor), TRUE>>, <<Fac(FALSE, MaxFactor), FALSE>>}

\* a variant of SubsampleRaises that does not test divisibility
SubsampleRaisesNoDivide(s, f) ==
    \/ ~HasAttr(s, "im_g1")
    \/ f <= 1
\* lines 620-629: the checks for a nonzero int subsample_fac
SubsampleRaises(s, f) ==
    \/ ~HasAttr(s, "im_g1")
    \/ s.im_g1.n % f # 0
    \/ f <= 1

\* a variant of SubsampleStore that moves the center by subsample_fac half
\* cells
SubsampleStoreByFac(s, f) ==
    [s EXCEPT
       !.im_g1    = Stride(s.im_g1, s.im_g1.n \div f, f),
       !.im_g2    = Stride(s.im_g2, s.im_g2.n \div f, f),
       !.im_kappa = Stride(s.im_kappa, s.im_kappa.n \div f, f),
       !.center   = IF s.adjust_center
                    THEN PosAdd(s.center,
                                PosScale(PosScale(Pos(Rat(1, 2), Rat(1, 2)), s.grid_spacing),
                                         RInt(f)))
                    ELSE s.center,
       !.grid_spacing = RMul(s.grid_spacing, RInt(f))]
\* lines 631-642
SubsampleStore(s, f) ==
    [s EXCEPT
       !.im_g1    = Stride(s.im_g1, s.im_g1.n \div f, f),
       !.im_g2    = Stride(s.im_g2, s.im_g2.n \div f, f),
       !.im_kappa = Stride(s.im_kappa, s.im_kappa.n \div f, f),
       !.center   = IF s.adjust_center
                    THEN PosAdd(s.center,
                                PosScale(PosScale(Pos(Rat(1, 2), Rat(1, 2)), s.grid_spacing),
                                         RInt(f - 1)))
                    ELSE s.center,
       !.grid_spacing = RMul(s.grid_spacing, RInt(f))]

\* lines 620-629 for any subsample_fac: the tests in the order the `or`
\* evaluates them; effective_ngrid % 0 raises before subsample_fac <= 1 is
\* looked at
SubsampleOutcome(s, fac) ==
    IF ~HasAttr(s, "im_g1") THEN "RuntimeError"                          \* 621
    ELSE IF ~fac.int THEN "RuntimeError"                                 \* 626
    ELSE IF fac.v = 0 THEN "ZeroDivisionError"                           \* 627
    ELSE IF SubsampleRaises(s, fac.v) THEN "RuntimeError" ELSE "ok"      \* 627-629

\* lines 644-647: what subsampleGrid hands back
SubsampleReturn(s, get_convergence) ==
    IF get_convergence THEN <<s.grid_g1, s.grid_g2, s.grid_kappa>>
    ELSE <<s.grid_g1, s.grid_g2>>

\* ------------------------------------------------------------- the queries

QueryOps == {"getShear", "getConvergence", "getMagnification", "getLensing"}

\* a variant of RequiredAttr that looks for the spacing instead of an image
RequiredAttrSpacing(op) == "grid_spacing"
\* the attribute each query requires (lines 1057, 1202, 1315, 1437)
RequiredAttr(op) == IF op = "getShear" THEN "im_g1" ELSE "im_kappa"

\* _wrap_image, lines 909-910: im.bounds.xmax - im.bounds.xmin < border
WrapRaises(im) == im.n - 1 < WrapBorder

\* how a query ends: "NoBuild" (RuntimeError: buildGrid must be called
\* before ...), "TooSmall" (RuntimeError of _wrap_image) or "ok"
QueryOutcome(s, op, periodic) ==
    IF ~HasAttr(s, RequiredAttr(op)) THEN "NoBuild"
    ELSE IF periodic /\ WrapRaises(s.im_g1) THEN "TooSmall"
    ELSE "ok"

\* -- the positions of a query
RLeq(a, b) == ~RLess(b, a)
\* Python's a % d on numbers, d > 0: a - d * floor(a / d)
RMod(a, d) == RSub(a, RMul(d, RFloorDiv(a, d)))

\* pos as the caller passes it: its form and its points in order.
\*   "PositionD"  one galsim.PositionD          "tuple"   one (x, y)
\*   "list"       a list of PositionD           "lists"   (xlist, ylist)
\*   "arrays"     (xarray, yarray)              "array_of_pos"  a NumPy array
\*                                                        of PositionD
PosInput(form, pts) == [form |-> form, pts |-> pts]

\* the type of pos[0] for an input that is not a single PositionD
FirstOf(pos) ==
    CASE pos.form = "tuple"        -> "float"
      [] pos.form = "list"         -> "PositionD"
      [] pos.form = "lists"        -> "list"
      [] pos.form = "arrays"       -> "ndarray"
      [] pos.form = "array_of_pos" -> "PositionD"
      [] OTHER                     -> "none"

\* galsim.utilities._convertPositions(pos, units, ...): the positions as
\* (pos_x[i], pos_y[i]), one per input position, in order
ConvertPositions(pos) == pos.pts

\* self.bounds.includes(iter_pos): the edges belong to the bounds
Includes(b, p) ==
    /\ RLeq(b.xmin, p[1]) /\ RLeq(p[1], b.xmax)
    /\ RLeq(b.ymin, p[2]) /\ RLeq(p[2], b.ymax)

\* lines 1116-1118 and 1137-1140: wrap_pos
WrapPos(b, p) ==
    LET dx == RSub(b.xmax, b.xmin)
        dy == RSub(b.ymax, b.ymin)
    IN  Pos(RAdd(RMod(RSub(p[1], b.xmin), dx), b.xmin),
            RAdd(RMod(RSub(p[2], b.ymin), dy), b.ymin))

\* (pos - self.center) / self.grid_spacing, the argument of xValue; with a
\* stored spacing of 0.0 the quotient has no value
Undefined == "Undefined"
KernelCoord(s, p) ==
    IF s.grid_spacing = RZero THEN Undefined
    ELSE Pos(RDiv(RSub(p[1], s.center[1]), s.grid_spacing),
             RDiv(RSub(p[2], s.center[2]), s.grid_spacing))

\* what the loop appends for one position
Fallback == [kind |-> "fallback", u |-> Undefined]
XValue(u) == [kind |-> "xValue", u |-> u]

\* lines 1124-1145 (1241-1257, 1360-1377, 1493-1516): the body of the loop
PosValue(s, periodic, p) ==
    IF ~Includes(s.bounds, p)
    THEN IF ~periodic THEN Fallback
         ELSE XValue(KernelCoord(s, WrapPos(s.bounds, p)))
    ELSE XValue(KernelCoord(s, p))

\* a variant of FallbackOf in which getLensing falls back to mu = 0
FallbackOfZeroMu(op) ==
    CASE op = "getShear"         -> <<0, 0>>
      [] op = "getConvergence"   -> <<0>>
      [] op = "getMagnification" -> <<1>>
      [] op = "getLensing"       -> <<0, 0, 0>>

\* what the fallback and the interpolated entries stand for, per query: the
\* constants appended for a position off the bounds, and the images whose
\* xValue is appended otherwise (mu is xValue of the image mu - 1, plus 1)
FallbackOf(op) ==
    CASE op = "getShear"         -> <<0, 0>>
      [] op = "getConvergence"   -> <<0>>
      [] op = "getMagnification" -> <<1>>
      [] op = "getLensing"       -> <<0, 0, 1>>
ImagesOf(op) ==
    CASE op = "getShear"         -> <<"g1_r", "g2_r">>
      [] op = "getConvergence"   -> <<"kappa">>
      [] op = "getMagnification" -> <<"mu">>
      [] op = "getLensing"       -> <<"g1_r", "g2_r", "mu">>

\* lines 1147-1154 (1259-1266, 1379-1386, 1518-1525): what is returned
Container(pos) ==
    IF pos.form = "PositionD" THEN "scalar"
    ELSE IF FirstOf(pos) = "ndarray" THEN "ndarray"
    ELSE IF Len(ConvertPositions(pos)) = 1 /\ FirstOf(pos) # "list" THEN "scalar"
    ELSE "list"

NoResult(outcome) ==
    [outcome |-> outcome, vals |-> <<>>, warnings |-> 0, container |-> "none"]

\* the ways the query op(pos, periodic=periodic) can end on instance s: the
\* outcome, one entry per position, the number of warnings and the kind of
\* container returned.  A quotient by a stored spacing of 0.0 either raises
\* or hands xValue a coordinate without a value.
QueryResults(s, op, periodic, pos) ==
    LET out == QueryOutcome(s, op, periodic)
    IN  IF out # "ok" THEN {NoResult(out)}
        ELSE LET pts  == ConvertPositions(pos)
                 vals == [i \in 1 .. Len(pts) |-> PosValue(s, periodic, pts[i])]
                 ok   == [outcome |-> "ok", vals |-> vals,
                          warnings |-> Cardinality({i \in 1 .. Len(pts) :
                                                       vals[i] = Fallback}),
                          container |-> Container(pos)]
             IN  IF \E i \in 1 .. Len(pts) : vals[i] = XValue(Undefined)
                 THEN {ok, NoResult("ZeroDivisionError")}
                 ELSE {ok}

\* a point given by the fractions t of the extent of the bounds b from their
\* lower corner
PosAt(b, t) ==
    Pos(RAdd(b.xmin, RMul(t[1], RSub(b.xmax, b.xmin))),
        RAdd(b.ymin, RMul(t[2], RSub(b.ymax, b.ymin))))

\* the points queried: inside the bounds, on their upper x edge, and each of
\* the two moved by whole extents
PtIn      == <<Rat(1, 4), Rat(1, 2)>>
PtOut     == <<Rat(5, 4), Rat(-1, 2)>>
PtEdge    == <<Rat(1, 1), Rat(1, 2)>>
PtEdgeOut == <<Rat(2, 1), Rat(1, 2)>>

\* the query calls: [op, periodic, form, ts]
QCall(op, periodic, form, ts) ==
    [op |-> op, periodic |-> periodic, form |-> form, ts |-> ts]
QueryCalls ==
    { QCall("getShear", FALSE, c[1], c[2]) :
        c \in { <<"PositionD", <<PtIn>> >>, <<"PositionD", <<PtOut>> >>,
                <<"PositionD", <<PtEdge>> >>, <<"tuple", <<PtIn>> >>,
                <<"list", <<PtIn>> >>, <<"list", <<PtIn, PtOut>> >>,
                <<"lists", <<PtOut>> >>, <<"arrays", <<PtOut, PtIn>> >>,
                <<"arrays", <<PtIn>> >>, <<"array_of_pos", <<PtIn, PtOut>> >> } }
      \cup { QCall("getShear", TRUE, c[1], c[2]) :
        c \in { <<"PositionD", <<PtIn>> >>, <<"PositionD", <<PtOut>> >>,
                <<"PositionD", <<PtEdge>> >>, <<"PositionD", <<PtEdgeOut>> >>,
                <<"list", <<PtIn, PtOut>> >> } }
      \cup { QCall(op, FALSE, "arrays", <<PtOut, PtIn>>) : op \in QueryOps \ {"getShear"} }
      \cup { QCall("getLensing", FALSE, c[1], c[2]) :
        c \in { <<"PositionD", <<PtOut>> >>, <<"list", <<PtIn>> >> } }
      \cup { QCall("getLensing", TRUE, "PositionD", <<PtOut>>) }

\* -- the interpolated value, for comparing the results of queries
RFloor(a) == a[1] \div a[2]

\* the half-width in pixels of the stored interpolant's kernel
Support(interp) == IF interp = "linear" THEN 1 ELSE 5

\* the pixel of an image with bounds 1 .. n that xValue(0, 0) reads: its
\* nominal center (see the comment at lines 476-483)
NominalCenter(n) == n \div 2 + 1

\* _wrap_image, lines 911-969, along one axis: the pixel of im (bounds
\* 1 .. n) copied to pixel p of im_new, 0 when p is off im_new
WrapSource(n, p) ==
    IF p \in 1 .. n THEN p                                               \* 915
    ELSE IF p \in (1 - WrapBorder) .. 0 THEN p + n                       \* 931-934
    ELSE IF p \in (n + 1) .. (n + WrapBorder) THEN p - n                 \* 936-939
    ELSE 0
\* the same for an image that is not wrapped: off the image there is nothing
PlainSource(n, p) == IF p \in 1 .. n THEN p ELSE 0

\* what xValue at coordinate u reads along one axis: the offset of u within
\* its pixel, and the pixels of the stored image under the kernel
Footprint1(n, wrapped, K, u) ==
    LET x  == RAdd(u, RInt(NominalCenter(n)))
        fl == RFloor(x)
    IN  [frac |-> RSub(x, RInt(fl)),
         src  |-> [i \in 1 .. 2 * K |->
                     IF wrapped THEN WrapSource(n, fl - K + i)
                     ELSE PlainSource(n, fl - K + i)]]

\* what xValue(u) reads of the stored images of s
Footprint(s, periodic, u) ==
    <<Footprint1(s.im_g1.n, periodic, Support(s.interpolant), u[1]),
      Footprint1(s.im_g1.n, periodic, Support(s.interpolant), u[2])>>

\* two entries of a result are the same value: the same fallback, or
\* interpolations that weigh the same pixels with the same offsets
SameValue(s, periodic, v1, v2) ==
    /\ v1.kind = v2.kind
    /\ IF v1.u = Undefined \/ v2.u = Undefined THEN v1.u = v2.u
       ELSE Footprint(s, periodic, v1.u) = Footprint(s, periodic, v2.u)

\* ------------------------------------------------------------- calculateXi
\* calculateXi(grid_spacing, ngrid, bandlimit=...): how it ends.  Lines 784-794
\* pick the band limit; lines 838-846 combine p_E and p_B, which are lambdas:
\* their sum, their difference and the negation of p_B are not defined.
CalculateXiOutcome(p, bandlimit) ==
    IF bandlimit \notin {"hard", "soft", "none"} THEN "RuntimeError"
    ELSE IF p.b_power_function.kind # "none" THEN "TypeError"
    ELSE "ok"

\* the grid arguments handed to calculateXi (n_theta and units at their
\* defaults): those of the buildGrid calls with the ints ngrid = 2 and
\* kmin_factor = 1
XiArgs == {a \in BuildArgs : a.ngrid = 2 /\ a.kmin_factor = 1 /\ a.kmax_factor >= 1
                                           /\ a.passed = AllInt}

\* line 783: k_max = kmax_factor * np.pi / grid_spacing, as (k_max/pi)^2
XiKMaxSq(a) ==
    RDiv(RInt(a.kmax_factor * a.kmax_factor), RMul(a.grid_spacing, a.grid_spacing))

\* lines 843-851: the power handed to xip_integrand and to xim_integrand.
\* p_E and p_B are lambdas; "P_E+P_B", "P_E-P_B" and "-P_B" are the
\* expressions p_E + p_B, p_E - p_B and -p_B, which Python cannot evaluate
XiIntegrands(p) ==
    IF p.e_power_function.kind # "none" /\ p.b_power_function.kind # "none"
    THEN [plus |-> "P_E+P_B", minus |-> "P_E-P_B", raises |-> TRUE]      \* 844-845
    ELSE IF p.e_power_function.kind # "none"
    THEN [plus |-> "P_E", minus |-> "P_E", raises |-> FALSE]             \* 847-848
    ELSE [plus |-> "P_B", minus |-> "-P_B", raises |-> TRUE]             \* 850-851

\* calculateXi(a.grid_spacing, a.ngrid, a.kmax_factor, a.kmin_factor,
\* bandlimit=a.bandlimit): how it ends, its k_max, its band-limited p_E and
\* p_B (lines 799-828) and its integrands
CalculateXiCall(p, a) ==
    LET qmax == XiKMaxSq(a)
    IN  [outcome |-> CalculateXiOutcome(p, a.bandlimit), qmax |-> qmax,
         pE |-> PFn(p.e_power_function, p, a.bandlimit, qmax),
         pB |-> PFn(p.b_power_function, p, a.bandlimit, qmax),
         integrands |-> XiIntegrands(p)]

\* ------------------------------------------------------------ the machine
NoBuildYet == [called |-> FALSE, a |-> NoArgs, status |-> "none", seed |-> 0,
               pos0 |-> 0, used |-> 0, segs |-> <<>>, ret |-> <<>>]
NoOkArgs   == [set |-> FALSE, a |-> NoArgs]
NoQ        == [op |-> "none", outcome |-> "none", value |-> 0]

Init ==
    /\ ps \in PSConfigs
    /\ self = SelfInit
    /\ rng = [seed |-> 0, pos |-> 0]
    /\ bg = NoBuildYet
    /\ okargs = NoOkArgs
    /\ q = NoQ

\* a variant of DescriptionAfter that keeps the hard-limited E function on
\* the instance
DescriptionAfterStored(p, bandlimit) ==
    IF bandlimit = "hard" /\ p.e_power_function.kind = "step"
    THEN [p EXCEPT !.e_power_function = [@ EXCEPT !.hi = 0]]
    ELSE p
\* buildGrid lines 507-562 and calculateXi lines 779-828: the converted
\* functions and the lambdas p_E, p_B are locals of the call; nothing is
\* assigned to self.e_power_function, self.b_power_function, self.delta2 or
\* self.scale after __init__ (lines 188-211)
DescriptionAfter(p, bandlimit) == p

\* buildGrid(**a): a.rng is the random source handed in
BuildGrid(a) ==
    /\ q = NoQ
    /\ \E res \in {BuildGridCall(self, ps, a, a.rng.seed, a.rng.pos)} :
           /\ self' = res.self
           /\ rng' = [seed |-> a.rng.seed, pos |-> res.pos]
           /\ bg' = [called |-> TRUE, a |-> a, status |-> res.status, seed |-> a.rng.seed,
                     pos0 |-> a.rng.pos, used |-> res.pos - a.rng.pos,
                     segs |-> res.segs, ret |-> res.ret]
           /\ okargs' = IF res.status = "ok" THEN [set |-> TRUE, a |-> a] ELSE okargs
    /\ ps' = DescriptionAfter(ps, a.bandlimit)
    /\ UNCHANGED q

SubsampleGrid(fac, get_convergence) ==
    /\ q = NoQ
    /\ \E out \in {SubsampleOutcome(self, fac)} :
           IF out # "ok"
           THEN /\ q' = [op |-> "subsampleGrid", outcome |-> out, value |-> fac,
                         ret |-> <<>>]
                /\ UNCHANGED self
           ELSE /\ self' = SubsampleStore(self, fac.v)
                /\ q' = [op |-> "subsampleGrid", outcome |-> "ok", value |-> fac,
                         ret |-> SubsampleReturn(self', get_convergence)]
    /\ UNCHANGED <<ps, rng, bg, okargs>>

NRandCallsForBuildGrid ==
    /\ q = NoQ
    /\ LET r == NRandCalls(self, ps)
       IN  q' = [op |-> "nRandCallsForBuildGrid",
                 outcome |-> IF r.raised THEN "RuntimeError" ELSE "ok",
                 value |-> r.value]
    /\ UNCHANGED <<ps, self, rng, bg, okargs>>

\* the keyword arguments of a query besides periodic: reduced (getShear
\* only; True for the others, which have no such argument) and the
\* interpolant override
QOptions(reduced, interpolant) == [reduced |-> reduced, interpolant |-> interpolant]
DefaultOptions == QOptions(TRUE, None)
\* the options each call is made with: the defaults, and for some calls of
\* each method the unreduced shear or an interpolant other than any stored
OptionsOf(c) ==
    {DefaultOptions} \cup
    (CASE c = QCall("getShear", FALSE, "arrays", <<PtOut, PtIn>>)
              -> {QOptions(FALSE, None)}
       [] c = QCall("getShear", TRUE, "PositionD", <<PtOut>>)
              -> {QOptions(FALSE, "nearest")}
       [] c = QCall("getLensing", TRUE, "PositionD", <<PtOut>>)
              -> {QOptions(TRUE, "nearest")}
       [] c \in {QCall(op, FALSE, "arrays", <<PtOut, PtIn>>) :
                    op \in {"getConvergence", "getMagnification"}}
              -> {QOptions(TRUE, "nearest")}
       [] OTHER -> {})

\* lines 1064-1067 (1209-1212, 1323-1326, 1445-1448): the interpolant a query
\* interpolates with
XInterp(s, interpolant) == IF interpolant # None THEN interpolant ELSE s.interpolant

\* lines 1070-1112: the images getShear interpolates, the reduced shear or
\* the stored shear; the other queries as ImagesOf
QueryImages(op, reduced) ==
    IF op = "getShear" /\ ~reduced THEN <<"g1", "g2">> ELSE ImagesOf(op)

\* a variant of SelfAfterQuery that keeps the interpolant of the call
SelfAfterQueryKeepsInterpolant(s, o) ==
    IF o.interpolant # None THEN [s EXCEPT !.interpolant = o.interpolant] ELSE s
\* the instance after a query: the queries assign no attribute of self, and
\* the images they interpolate (theoryToObserved's, _wrap_image's) are new
SelfAfterQuery(s, o) == s

\* op(pos, periodic=periodic, reduced=..., interpolant=...) with the points
\* of c.ts taken on the stored bounds
Query(c) ==
    /\ q = NoQ
    /\ \E pos \in {PosInput(c.form, [i \in 1 .. Len(c.ts) |-> PosAt(self.bounds, c.ts[i])])} :
       \E res \in QueryResults(self, c.op, c.periodic, pos) :
       \E o \in OptionsOf(c) :
           /\ q' = [op |-> c.op, outcome |-> res.outcome, value |-> 0,
                    periodic |-> c.periodic, pos |-> pos, vals |-> res.vals,
                    warnings |-> res.warnings, container |-> res.container,
                    reduced |-> o.reduced, interpolant |-> o.interpolant,
                    xinterp |-> IF res.outcome = "NoBuild" THEN None
                                ELSE XInterp(self, o.interpolant),
                    images |-> QueryImages(c.op, o.reduced)]
           /\ self' = SelfAfterQuery(self, o)
    /\ UNCHANGED <<ps, rng, bg, okargs>>

\* calculateXi reads the instance and stores nothing on it
CalculateXi(a) ==
    /\ q = NoQ
    /\ \E res \in {CalculateXiCall(ps, a)} :
           q' = [op |-> "calculateXi", outcome |-> res.outcome, value |-> 0,
                 a |-> a, qmax |-> res.qmax, pE |-> res.pE, pB |-> res.pB,
                 integrands |-> res.integrands]
    /\ ps' = DescriptionAfter(ps, a.bandlimit)
    /\ UNCHANGED <<self, rng, bg, okargs>>

\* the caller has taken the result (or the exception) of the call
Return ==
    /\ q # NoQ
    /\ q' = NoQ
    /\ UNCHANGED <<ps, self, rng, bg, okargs>>

Next ==
    \/ \E a \in BuildArgs \cup {NoArgs} : BuildGrid(a)
    \/ \E c \in SubsampleCalls : SubsampleGrid(c[1], c[2])
    \/ NRandCallsForBuildGrid
    \/ \E c \in QueryCalls : Query(c)
    \/ \E a \in XiArgs : CalculateXi(a)
    \/ Return

Spec == Init /\ [][Next]_vars

\* -------------------------------------------------------------- properties
\* what an instance stores and what buildGrid returned, by content: the views
\* and the Fourier fields they are transforms of
GridsOf(s, ret) ==
    [g1 |-> s.grid_g1, g2 |-> s.grid_g2, kappa |-> s.grid_kappa,
     im_g1 |-> s.im_g1, im_g2 |-> s.im_g2, im_kappa |-> s.im_kappa,
     ret |-> ret, fields |-> FieldOf(s.field)]

\* the instance buildGrid has just returned from successfully
JustBuilt == q = NoQ /\ bg.status = "ok" /\ self.im_g1 = self.grid_g1

\* C1: a buildGrid call that succeeds stores and returns the same g1, g2 and
\* kappa arrays as the same call (same grid parameters, same power functions,
\* same random source at the same position) on a fresh instance, whatever
\* was built or subsampled on the instance before.
C1_Determinism ==
    JustBuilt =>
        \E fresh \in {BuildGridCall(SelfInit, ps, okargs.a, okargs.a.rng.seed,
                                     okargs.a.rng.pos)} :
            /\ fresh.status = "ok"
            /\ GridsOf(self, bg.ret) = GridsOf(fresh.self, fresh.ret)

\* a build of a strided grid with both modes has just succeeded
C1_Witness ==
    /\ JustBuilt
    /\ okargs.a.kmax_factor > 1
    /\ ps.e_power_function.kind # "none" /\ ps.b_power_function.kind # "none"
    /\ \E c \in DOMAIN FieldOf(self.field).E : ~IsZeroC(FieldOf(self.field).E[c])

\* N = ngrid * kmin_factor * kmax_factor of the build that last succeeded
NTot == okargs.a.ngrid * okargs.a.kmin_factor * okargs.a.kmax_factor

\* C2: a successful buildGrid takes exactly 2 * N * (N \div 2 + 1) draws per
\* mode present, as consecutive runs from the position of the random source
\* at the call: E r1, E r2, then B r1, B r2; an absent mode draws nothing.
C2_DrawCountAndOrder ==
    bg.status = "ok" =>
        LET len  == NTot * (NTot \div 2 + 1)
            hasE == ps.e_power_function.kind # "none"
            hasB == ps.b_power_function.kind # "none"
            p0   == bg.pos0
            pB   == IF hasE THEN p0 + 2 * len ELSE p0
        IN  /\ bg.used = 2 * len * ((IF hasE THEN 1 ELSE 0) + (IF hasB THEN 1 ELSE 0))
            /\ rng.pos = p0 + bg.used
            /\ bg.segs = (IF hasE THEN << <<"E", "r1", p0, len>>,
                                          <<"E", "r2", p0 + len, len>> >> ELSE <<>>)
                         \o (IF hasB THEN << <<"B", "r1", pB, len>>,
                                             <<"B", "r2", pB + len, len>> >> ELSE <<>>)

\* a build with both modes on the largest grid, the random source handed in
\* part way through its sequence
C2_Witness ==
    /\ bg.status = "ok"
    /\ Len(bg.segs) = 4
    /\ NTot = MaxNTot
    /\ bg.pos0 = StartPos

\* C3: nRandCallsForBuildGrid returns the number of draws the most recent
\* buildGrid call took from the random source, whether that call succeeded or
\* failed, and whatever was subsampled since.
C3_NRandCallsIsLastBuildDraws ==
    (q.op = "nRandCallsForBuildGrid" /\ bg.called) =>
        (q.outcome = "ok" /\ q.value = bg.used)

\* the power-spectrum validity errors of buildGrid
ValidityErrors == {"NegativePower", "TableOutOfRange", "NotDefinedForFullRange"}

\* C4: as long as no buildGrid call has succeeded, getShear, getConvergence,
\* getMagnification, getLensing and subsampleGrid raise, whatever was called
\* before.
C4_RaiseBeforeBuild ==
    (q.op \in QueryOps \cup {"subsampleGrid"} /\ ~okargs.set) =>
        q.outcome \in {"NoBuild", "RuntimeError"}

\* a query after a buildGrid call that failed in the realizer, when the
\* instance already has its grid_spacing, bounds and ngrid_tot
C4_Witness ==
    /\ q.op = "getLensing" /\ q.outcome = "NoBuild"
    /\ ~okargs.set
    /\ bg.status \in ValidityErrors
    /\ HasAttr(self, "ngrid_tot")

\* the function pfn returns a negative value at a k of the n x n grid
NegativeSampled(n, pixel, pfn) ==
    /\ pfn.pf.kind # "none"
    /\ \E c \in DOMAIN KGrid(n, pixel) : PLambda(pfn, KGrid(n, pixel)[c]).raw < 0

\* C5: buildGrid fails whenever the E or the B power function is negative at
\* a k sampled on the grid, for every bandlimit ("hard", "soft", None): a
\* build that succeeded has sampled no negative value.
C5_NegativePowerRejected ==
    JustBuilt =>
        /\ ~NegativeSampled(self.field.nx, self.field.pixel, self.field.pE)
        /\ ~NegativeSampled(self.field.nx, self.field.pixel, self.field.pB)

\* C6: a buildGrid call that fails with a power-spectrum validity error has
\* drawn nothing: the random source is where it was at the call.
C6_NoDrawBeforeValidityError ==
    bg.status \in ValidityErrors =>
        /\ rng = [seed |-> bg.seed, pos |-> bg.pos0]
        /\ bg.used = 0 /\ bg.segs = <<>>

\* the E function passes, the B function is negative, the random source was
\* handed in part way through its sequence
C6_Witness ==
    /\ bg.status = "NegativePower"
    /\ ps.e_power_function = Flat /\ ps.b_power_function = NegHigh
    /\ bg.pos0 = StartPos

\* the stored grid state: the grids and what the queries read with them
StoredGridState(s) ==
    [has |-> s.has, grid_g1 |-> s.grid_g1, grid_g2 |-> s.grid_g2,
     grid_kappa |-> s.grid_kappa, im_g1 |-> s.im_g1, im_g2 |-> s.im_g2,
     im_kappa |-> s.im_kappa, field |-> s.field, grid_spacing |-> s.grid_spacing,
     center |-> s.center, bounds |-> s.bounds, adjust_center |-> s.adjust_center,
     interpolant |-> s.interpolant, ngrid_tot |-> s.ngrid_tot]

\* C7: a buildGrid call that fails with a power-spectrum validity error
\* leaves the stored grids, grid_spacing, center, bounds, adjust_center,
\* interpolant and ngrid_tot as they were before the call.  Stated for the
\* error the realizer raises itself (negative power) on an instance that
\* holds the grid of an earlier build; a step with q = NoQ before and after
\* it is a buildGrid call.
C7_FailedBuildKeepsState ==
    [][(q = NoQ /\ q' = NoQ /\ okargs.set /\ bg'.status = "NegativePower")
          => StoredGridState(self') = StoredGridState(self)]_vars

\* C8: the k = 0 coefficient of the E field and of the B field of a
\* realization is exactly zero, whatever the power functions return near
\* k = 0 and whatever was drawn.
C8_ZeroModeIsZero ==
    JustBuilt =>
        \E f \in {FieldOf(self.field)} :
            /\ f.E # NoField => f.E[<<0, 0>>] = ZeroC
            /\ f.B # NoField => f.B[<<0, 0>>] = ZeroC

\* both modes realized from a function that is not zero next to k = 0, with
\* a coefficient of each mode that is not zero
C8_Witness ==
    /\ JustBuilt
    /\ ps.e_power_function = Flat /\ ps.b_power_function = Flat
    /\ \E f \in {FieldOf(self.field)} :
          /\ \E c \in DOMAIN f.E : ~IsZeroC(f.E[c])
          /\ \E c \in DOMAIN f.B : ~IsZeroC(f.B[c])

\* F[(-iy) mod n, (-ix) mod n] = conj(F[iy, ix]) at every cell of an n x n
\* array, every cell having been assigned
IsHermitian(F, n) ==
    \A c \in (0 .. n - 1) \X (0 .. n - 1) :
        /\ F[c].tag = "val"
        /\ F[<<(n - c[1]) % n, (n - c[2]) % n>>] = Conj(F[c])

\* C9: for every n >= 2, odd and even, the array _make_hermitian leaves has
\* F[-k] = conj(F[k]) at every cell (so the self-paired cells are real), for
\* the E and for the B field.
C9_Hermitian ==
    JustBuilt =>
        \E f \in {FieldOf(self.field)} :
            /\ f.E # NoField => IsHermitian(f.E, self.field.nx)
            /\ f.B # NoField => IsHermitian(f.B, self.field.nx)

\* an even grid with cells between the axes and the Nyquist lines, both modes
\* present, and a coefficient with an imaginary part
C9_Witness ==
    /\ JustBuilt
    /\ self.field.nx = MaxNTot /\ self.field.nx % 2 = 0
    /\ \E f \in {FieldOf(self.field)} :
          /\ f.E # NoField /\ f.B # NoField
          /\ \E c \in DOMAIN f.E : f.E[c].im # 0
          /\ \E c \in DOMAIN f.B : f.B[c].im # 0

\* C10: after a successful buildGrid the stored grid_spacing is the quotient
\* grid_spacing / kmax_factor of the arguments, and with it the pixel size
\* the realizer was given.
C10_GridSpacingIsQuotient ==
    JustBuilt =>
        /\ self.grid_spacing = RDiv(okargs.a.grid_spacing, RInt(okargs.a.kmax_factor))
        /\ self.grid_spacing = self.pixel_size

\* C11: a buildGrid call with integers ngrid, kmin_factor, kmax_factor >= 1
\* (and a valid bandlimit and valid power functions) realizes a grid of side
\* ngrid * kmin_factor * kmax_factor and stores g1, g2 and kappa of side ngrid
\* whose element [i][j] is the realized element [i*kmax_factor][j*kmax_factor]
\* (the realized arrays themselves when both factors are 1).  Stated for the
\* calls that reach the realizer's k grid (line 567).
C11_StoredGridIsStridedRealization ==
    (bg.called /\ bg.a.supplied /\ bg.status \in {"ok", "IndexError"}) =>
        LET a   == bg.a
            kap == IF ps.e_power_function.kind # "none" THEN "kappa" ELSE "zeros"
        IN  /\ bg.status = "ok"
            /\ self.field.nx = a.ngrid * a.kmin_factor * a.kmax_factor
            /\ self.grid_g1 = Arr("g1", a.ngrid, a.kmax_factor)
            /\ self.grid_g2 = Arr("g2", a.ngrid, a.kmax_factor)
            /\ self.grid_kappa = Arr(kap, a.ngrid, a.kmax_factor)
            /\ \A i, j \in 0..(a.ngrid - 1) :
                   At(self.grid_g1, i, j) = <<i * a.kmax_factor, j * a.kmax_factor>>

\* C12: a subsampleGrid(f) call succeeds only when a build exists and f is
\* an int greater than 1 that divides the side of the stored images as
\* earlier subsamples left them; every other call raises and leaves the
\* instance (grids, grid_spacing, center and all the rest) as it was.
C12_SubsampleChecks ==
    [][(q = NoQ /\ q'.op = "subsampleGrid") =>
         IF q'.outcome = "ok"
         THEN /\ HasAttr(self, "im_g1")
              /\ q'.value.int
              /\ q'.value.v > 1
              /\ self.im_g1.n % q'.value.v = 0
         ELSE /\ q'.outcome \in {"RuntimeError", "ZeroDivisionError"}
              /\ self' = self]_vars

\* subsampleGrid has just refused an int factor greater than 1 on a built
\* grid whose side it does not divide
C12_Witness ==
    /\ q.op = "subsampleGrid" /\ q.outcome = "RuntimeError"
    /\ HasAttr(self, "im_g1")
    /\ q.value.int /\ q.value.v > 1
    /\ self.im_g1.n % q.value.v # 0

\* C13: a successful subsampleGrid(f) on stored n x n images returns, and
\* stores for the later queries, g1, g2 (and kappa) arrays of side n / f
\* whose element [i][j] is element [i*f][j*f] of the images stored before.
C13_SubsampleReturnsAndStoresStrided ==
    [][(q = NoQ /\ q'.op = "subsampleGrid" /\ q'.outcome = "ok") =>
         LET f  == q'.value.v
             g1 == Stride(self.im_g1, self.im_g1.n \div f, f)
             g2 == Stride(self.im_g2, self.im_g2.n \div f, f)
             ka == Stride(self.im_kappa, self.im_kappa.n \div f, f)
         IN  /\ self'.im_g1 = g1 /\ self'.im_g2 = g2 /\ self'.im_kappa = ka
             /\ \A i, j \in 0 .. (g1.n - 1) :
                    At(self'.im_g1, i, j) = At(self.im_g1, i * f, j * f)
             /\ q'.ret \in {<<g1, g2>>, <<g1, g2, ka>>}]_vars

\* C14: a periodic=False query on an instance with a build does not raise;
\* every position outside the stored bounds gets the fixed fallback of the
\* query ((0, 0), 0, 1 or (0, 0, 1)) and one warning, and every other
\* position of the batch is interpolated at (pos - center) / grid_spacing.
C14_OutOfBoundsFallback ==
    (q.op \in QueryOps /\ ~q.periodic /\ q.outcome # "NoBuild") =>
        /\ q.outcome = "ok"
        /\ \A i \in 1 .. Len(q.pos.pts) :
               IF Includes(self.bounds, q.pos.pts[i])
               THEN /\ q.vals[i].kind = "xValue"
                    /\ self.grid_spacing # RZero
                    /\ PosScale(q.vals[i].u, self.grid_spacing)
                           = PosAdd(q.pos.pts[i], PosScale(self.center, RInt(-1)))
               ELSE q.vals[i] = Fallback
        /\ q.warnings = Cardinality({i \in 1 .. Len(q.pos.pts) :
                                        ~Includes(self.bounds, q.pos.pts[i])})
        /\ FallbackOf(q.op) = (CASE q.op = "getShear"         -> <<0, 0>>
                                 [] q.op = "getConvergence"   -> <<0>>
                                 [] q.op = "getMagnification" -> <<1>>
                                 [] q.op = "getLensing"       -> <<0, 0, 1>>)

\* C15: in a periodic=True query every position P' off the bounds is wrapped
\* modulo the extents into [xmin, xmax) x [ymin, ymax) and then mapped to
\* (pos - center) / grid_spacing, and its entry is the same value as the
\* entry of every in-bounds position P with P' = P + (m*dx, n*dy), m and n
\* whole numbers.
C15_PeriodicWrap ==
    (q.op \in QueryOps /\ q.periodic /\ q.outcome = "ok") =>
        LET b  == self.bounds
            dx == RSub(b.xmax, b.xmin)
            dy == RSub(b.ymax, b.ymin)
        IN  \A i \in 1 .. Len(q.pos.pts) :
                ~Includes(b, q.pos.pts[i]) =>
                    /\ \E w \in {WrapPos(b, q.pos.pts[i])} :
                           /\ RLeq(b.xmin, w[1]) /\ RLess(w[1], b.xmax)
                           /\ RLeq(b.ymin, w[2]) /\ RLess(w[2], b.ymax)
                           /\ q.vals[i] = XValue(KernelCoord(self, w))
                    /\ \A m, n \in (0 - MaxWraps) .. MaxWraps :
                           LET P == PosAdd(q.pos.pts[i],
                                           Pos(RMul(RInt(0 - m), dx), RMul(RInt(0 - n), dy)))
                           IN  Includes(b, P) =>
                                   SameValue(self, TRUE, PosValue(self, TRUE, P), q.vals[i])

\* C16: the container a query returns mirrors its input: scalars for a single
\* PositionD or (x, y) tuple, Python lists with one entry per position for a
\* list of positions or a tuple of lists (a one-element list included),
\* NumPy arrays of the same length for NumPy array inputs.
C16_ContainerMirrorsInput ==
    (q.op \in QueryOps /\ q.outcome = "ok") =>
        /\ Len(q.vals) = Len(q.pos.pts)
        /\ q.container = (CASE q.pos.form \in {"PositionD", "tuple"}       -> "scalar"
                            [] q.pos.form \in {"list", "lists"}            -> "list"
                            [] q.pos.form \in {"arrays", "array_of_pos"}   -> "ndarray")

\* C17: calculateXi with a recognised bandlimit completes for every
\* PowerSpectrum that has a mode: with both modes it integrates P_E + P_B
\* for xi+ and P_E - P_B for xi-, with E alone P_E for both, with B alone
\* P_B for xi+ and -P_B for xi-.
C17_CalculateXiCompletes ==
    (q.op = "calculateXi" /\ q.a.bandlimit \in {"hard", "soft", "none"}) =>
        LET hasE == ps.e_power_function.kind # "none"
            hasB == ps.b_power_function.kind # "none"
        IN  (hasE \/ hasB) =>
                /\ q.outcome = "ok"
                /\ q.integrands.plus = (IF hasE /\ hasB THEN "P_E+P_B"
                                        ELSE IF hasE THEN "P_E" ELSE "P_B")
                /\ q.integrands.minus = (IF hasE /\ hasB THEN "P_E-P_B"
                                         ELSE IF hasE THEN "P_E" ELSE "-P_B")

\* C18: for the same grid_spacing, ngrid, kmin_factor, kmax_factor, units
\* and bandlimit, calculateXi and buildGrid use the same k_max
\* (kmax_factor * pi / grid_spacing) and the same band-limit function on the
\* power spectra, and both reject an unrecognised bandlimit.
C18_SameBandLimit ==
    q.op = "calculateXi" =>
        \E b \in {BuildGridCall(SelfInit, ps, q.a, q.a.rng.seed, q.a.rng.pos)} :
            IF q.a.bandlimit \notin {"hard", "soft", "none"}
            THEN q.outcome = "RuntimeError" /\ b.status = "RuntimeError"
            ELSE \E s1 \in {StoreGridSpec(SelfInit, q.a)} :
                    /\ s1.grid_spacing # RZero
                    /\ q.qmax = KMaxSq(SelfInit, s1)
                    /\ q.qmax = RDiv(RInt(q.a.kmax_factor * q.a.kmax_factor),
                                     RMul(q.a.grid_spacing, q.a.grid_spacing))
                    /\ q.pE = PFn(ps.e_power_function, ps, q.a.bandlimit, KMaxSq(SelfInit, s1))
                    /\ q.pB = PFn(ps.b_power_function, ps, q.a.bandlimit, KMaxSq(SelfInit, s1))


\* C19: buildGrid accepts ngrid, kmin_factor and kmax_factor only as
\* positive integers.  A value that is not an int but is integral is used
\* as its int: the call does what the call with the int does.  A value that
\* is not integral or is not positive is rejected with a ValueError and the
\* stored grid state is what it was before the call.  A step with q = NoQ
\* before and after it is a buildGrid call.
C19_CountsArePositiveIntegers ==
    [][(q = NoQ /\ q' = NoQ /\ bg'.called /\ bg'.a.supplied) =>
         LET a == bg'.a
         IN  IF \/ IntegralityRaises(a)
                \/ a.ngrid < 1 \/ a.kmin_factor < 1 \/ a.kmax_factor < 1
             THEN /\ bg'.status = "ValueError"
                  /\ StoredGridState(self') = StoredGridState(self)
             ELSE \E r \in {BuildGridCall(self, ps, [a EXCEPT !.passed = AllInt],
                                          a.rng.seed, a.rng.pos)} :
                      /\ self' = r.self
                      /\ bg'.status = r.status]_vars


\* the tabulated function pf of the description p is asked, for the grid of
\* the call a, about a nonzero |k| outside [x_min, x_max]; |k| is taken in
\* the units of the table (self.scale * k)
GridLeavesTable(pf, p, a) ==
    /\ pf.kind = "table"
    /\ \E k \in {KGrid(a.ngrid * a.kmin_factor * a.kmax_factor,
                       RDiv(a.grid_spacing, RInt(a.kmax_factor)))} :
           \E c \in DOMAIN k :
               PFOutOfRange(pf, PLambdaArg(PFn(pf, p, a.bandlimit, ROne), k[c]))

\* C20: a buildGrid call on a PowerSpectrum with a tabulated power function
\* whose grid has a nonzero |k| outside the table's [x_min, x_max] fails,
\* and it fails in the range check on the grid's |k|: the table is never
\* evaluated outside its domain.  Stated for the calls that reach the
\* realizer's power arrays.
C20_TableRangeIsChecked ==
    (/\ q = NoQ /\ bg.called
     /\ bg.status \in {"ok"} \cup ValidityErrors
     /\ "table" \in {ps.e_power_function.kind, ps.b_power_function.kind}) =>
        /\ (\/ GridLeavesTable(ps.e_power_function, ps, bg.a)
            \/ GridLeavesTable(ps.b_power_function, ps, bg.a))
               => bg.status = "NotDefinedForFullRange"
        /\ bg.status # "TableOutOfRange"


\* C21: the power-spectrum description of the instance (e_power_function,
\* b_power_function, delta2, scale) is the same after every call as before
\* it, and a buildGrid call that succeeds realizes the constructor's
\* functions under the band limit of that call alone.  A step with q = NoQ
\* before and after it is a buildGrid call.
C21_DescriptionNeverChanges ==
    [][/\ ps' = ps
       /\ (q = NoQ /\ q' = NoQ /\ bg'.status = "ok") =>
             /\ self'.field.pE = PFn(ps.e_power_function, ps, bg'.a.bandlimit,
                                     self'.field.pE.qmax)
             /\ self'.field.pB = PFn(ps.b_power_function, ps, bg'.a.bandlimit,
                                     self'.field.pB.qmax)]_vars

\* a calculateXi call after a buildGrid call with another band limit than
\* that of the build the stored grid is from
C21_Witness ==
    /\ q.op = "calculateXi"
    /\ okargs.set /\ okargs.a.bandlimit = "hard"
    /\ bg.a.supplied /\ bg.a.bandlimit = "soft"


\* ------------------------------------------------------- theoryToObserved
\* An argument of theoryToObserved: its Python type and its values (one
\* value for a float or an int).
TArg(form, vals) == [form |-> form, vals |-> vals]

\* inf or nan: NumPy division by zero warns and does not raise
NonFinite == <<"nonfinite">>
NpDiv(a, b) == IF b = RZero THEN NonFinite ELSE RDiv(a, b)

\* a variant of ReducedOne that leaves the shear unreduced
ReducedOneUnreduced(gamma1, gamma2, kappa) ==
    LET omk == RSub(ROne, kappa)
    IN  [g1 |-> gamma1, g2 |-> gamma2,
         mu |-> NpDiv(ROne, RSub(RMul(omk, omk),
                                 RAdd(RMul(gamma1, gamma1), RMul(gamma2, gamma2))))]
\* lines 58-60 for one element
ReducedOne(gamma1, gamma2, kappa) ==
    LET omk == RSub(ROne, kappa)
    IN  [g1 |-> NpDiv(gamma1, omk), g2 |-> NpDiv(gamma2, omk),
         mu |-> NpDiv(ROne, RSub(RMul(omk, omk),
                                 RAdd(RMul(gamma1, gamma1), RMul(gamma2, gamma2))))]

NoReduced(outcome) == [outcome |-> outcome, form |-> None, vals |-> <<>>]

\* lines 43-72
theoryToObserved(gamma1, gamma2, kappa) ==
    IF gamma1.form # gamma2.form THEN NoReduced("ValueError")            \* 44-45
    ELSE IF kappa.form # gamma1.form THEN NoReduced("ValueError")        \* 46-47
    ELSE IF Len(gamma1.vals) # Len(gamma2.vals) THEN NoReduced("ValueError")  \* 51-52
    ELSE IF Len(kappa.vals) # Len(gamma1.vals) THEN NoReduced("ValueError")   \* 53-55
    ELSE IF gamma1.form \notin {"float", "list", "tuple", "ndarray"}
    THEN NoReduced("ValueError")                                         \* 71-72
    ELSE [outcome |-> "ok", form |-> gamma1.form,
          vals |-> [i \in 1 .. Len(gamma1.vals) |->
                       ReducedOne(gamma1.vals[i], gamma2.vals[i], kappa.vals[i])]]

\* the values handed in
TGamma == {RZero, Rat(1, 2), RInt(-1), RInt(2)}
TKappa == {RInt(-1), RZero, Rat(1, 2), ROne, Rat(3, 2), RInt(2), RInt(3)}
TElems == {<<Rat(1, 2), RZero, RZero>>, <<RZero, RInt(-1), RInt(2)>>,
           <<Rat(1, 2), Rat(1, 2), RInt(3)>>}
TSeqs  == UNION { [1 .. n -> TElems] : n \in 1 .. MaxLen }
Column(s, j) == [i \in 1 .. Len(s) |-> s[i][j]]

\* the calls of theoryToObserved: <<gamma1, gamma2, kappa>>
TheoryCalls ==
    { <<TArg("float", <<g1>>), TArg("float", <<g2>>), TArg("float", <<k>>)>> :
        g1 \in TGamma, g2 \in TGamma, k \in TKappa }
      \cup { <<TArg(f, Column(s, 1)), TArg(f, Column(s, 2)), TArg(f, Column(s, 3))>> :
        f \in {"list", "tuple", "ndarray"}, s \in TSeqs }
      \cup { <<TArg("int", <<RZero>>), TArg("int", <<RZero>>), TArg("int", <<RZero>>)>>,
             <<TArg("float", <<RZero>>), TArg("int", <<RZero>>), TArg("float", <<RZero>>)>>,
             <<TArg("list", <<RZero>>), TArg("list", <<RZero>>), TArg("tuple", <<RZero>>)>>,
             <<TArg("list", <<RZero>>), TArg("list", <<RZero, RZero>>), TArg("list", <<RZero>>)>>,
             <<TArg("list", <<RZero>>), TArg("list", <<RZero>>), TArg("list", <<RZero, RZero>>)>> }

\* ------------------------------------------------------------- _wrap_image
\* galsim.BoundsI(xmin, xmax, ymin, ymax) and the cells it covers
BoundsI(xmin, xmax, ymin, ymax) ==
    [xmin |-> xmin, xmax |-> xmax, ymin |-> ymin, ymax |-> ymax]
Cells(b) == (b.xmin .. b.xmax) \X (b.ymin .. b.ymax)
\* bounds.withBorder(border)
WithBorder(b, border) ==
    BoundsI(b.xmin - border, b.xmax + border, b.ymin - border, b.ymax + border)

\* an n x n image whose lower-left pixel is (o, o); every pixel holds a
\* value of its own
TestImage(o, n) ==
    LET b == BoundsI(o, o + n - 1, o, o + n - 1)
    IN  [bounds |-> b, cells |-> [c \in Cells(b) |-> <<"pixel", c[1] - o, c[2] - o>>]]

\* galsim.ImageD(bounds)
NewImage(b) == [bounds |-> b, cells |-> [c \in Cells(b) |-> <<"new">>]]

\* im_new[db] = galsim.Image(im[sb]): the pixels of im under sb copied, in
\* place, to the pixels of im_new under db
Assign(im_new, db, im, sb) ==
    [im_new EXCEPT !.cells =
        [c \in DOMAIN im_new.cells |->
            IF c \in Cells(db)
            THEN im.cells[<<c[1] - db.xmin + sb.xmin, c[2] - db.ymin + sb.ymin>>]
            ELSE im_new.cells[c]]]

\* a variant of UpperLeftSource that reads the rows under the top edge
UpperLeftSourceTopRows(b, b1) ==
    BoundsI(b.xmax - b1, b.xmax, b.ymax - b1, b.ymax)
\* lines 960-962: the block of im copied to the upper-left corner
UpperLeftSource(b, b1) ==
    BoundsI(b.xmax - b1, b.xmax, b.ymin, b.ymin + b1)

\* _wrap_image(im, border), lines 909-970
WrapImage(im, border) ==
    LET b  == im.bounds
        e  == WithBorder(b, border)                                       \* 911
        b1 == border - 1                                                  \* 930
        i0 == Assign(NewImage(e), b, im, b)                               \* 913-915
        i1 == Assign(i0, BoundsI(e.xmin, b.xmin - 1, b.ymin, b.ymax),
                     im, BoundsI(b.xmax - b1, b.xmax, b.ymin, b.ymax))    \* 931-934
        i2 == Assign(i1, BoundsI(b.xmax + 1, e.xmax, b.ymin, b.ymax),
                     im, BoundsI(b.xmin, b.xmin + b1, b.ymin, b.ymax))    \* 936-939
        i3 == Assign(i2, BoundsI(b.xmin, b.xmax, e.ymin, b.ymin - 1),
                     im, BoundsI(b.xmin, b.xmax, b.ymax - b1, b.ymax))    \* 941-944
        i4 == Assign(i3, BoundsI(b.xmin, b.xmax, b.ymax + 1, e.ymax),
                     im, BoundsI(b.xmin, b.xmax, b.ymin, b.ymin + b1))    \* 946-949
        i5 == Assign(i4, BoundsI(e.xmin, b.xmin - 1, e.ymin, b.ymin - 1),
                     im, BoundsI(b.xmax - b1, b.xmax, b.ymax - b1, b.ymax))  \* 951-954
        i6 == Assign(i5, BoundsI(b.xmax + 1, e.xmax, b.ymax + 1, e.ymax),
                     im, BoundsI(b.xmin, b.xmin + b1, b.ymin, b.ymin + b1))  \* 956-959
        i7 == Assign(i6, BoundsI(e.xmin, b.xmin - 1, b.ymax + 1, e.ymax),
                     im, UpperLeftSource(b, b1))                          \* 961-964
        i8 == Assign(i7, BoundsI(b.xmax + 1, e.xmax, e.ymin, b.ymin - 1),
                     im, BoundsI(b.xmin, b.xmin + b1, b.ymax - b1, b.ymax))  \* 966-969
    IN  IF b.xmax - b.xmin < border
        THEN [outcome |-> "RuntimeError", im_new |-> NewImage(BoundsI(1, 0, 1, 0))]  \* 909-910
        ELSE [outcome |-> "ok", im_new |-> i8]

\* the calls of _wrap_image: <<origin, side, border>>; the small images with
\* the small borders, and the smallest grid the default border accepts
WrapCalls ==
    ({1, -2} \X (1 .. MaxSide) \X (1 .. MaxBorder))
        \cup {<<1, WrapNgrid, WrapBorder>>, <<1, WrapBorder, WrapBorder>>}

\* the functions that read no attribute of the instance are called on a
\* fresh one
InitTheory ==
    /\ ps = PSpec(Flat, NoPF, FALSE, ROne)
    /\ self = SelfInit
    /\ rng = [seed |-> 0, pos |-> 0]
    /\ bg = NoBuildYet
    /\ okargs = NoOkArgs
    /\ q = NoQ

CallTheoryToObserved(gamma1, gamma2, kappa) ==
    /\ q = NoQ
    /\ \E res \in {theoryToObserved(gamma1, gamma2, kappa)} :
           q' = [op |-> "theoryToObserved", outcome |-> res.outcome, value |-> 0,
                 gamma1 |-> gamma1, gamma2 |-> gamma2, kappa |-> kappa, ret |-> res]
    /\ UNCHANGED <<ps, self, rng, bg, okargs>>

\* self._wrap_image(im, border); im is only read
CallWrapImage(o, n, border) ==
    /\ q = NoQ
    /\ \E im \in {TestImage(o, n)} :
       \E res \in {WrapImage(im, border)} :
           q' = [op |-> "_wrap_image", outcome |-> res.outcome, value |-> 0,
                 im |-> im, border |-> border, ret |-> res.im_new, im_after |-> im]
    /\ UNCHANGED <<ps, self, rng, bg, okargs>>

NextTheory ==
    \/ \E c \in TheoryCalls : CallTheoryToObserved(c[1], c[2], c[3])
    \/ \E c \in WrapCalls : CallWrapImage(c[1], c[2], c[3])
    \/ Return

SpecTheory == InitTheory /\ [][NextTheory]_vars

\* the algebraic inverse of (gamma1, gamma2, kappa) -> (g1, g2, mu):
\* (1 - kappa)^2 = 1 / (mu * (1 - g1^2 - g2^2)), with the positive root
ISqrt(n) == CHOOSE r \in 0 .. n : r * r = n
RSqrt(x) == <<ISqrt(x[1]), ISqrt(x[2])>>
observedToTheory(g1, g2, mu) ==
    LET omk == RSqrt(RDiv(ROne, RMul(mu, RSub(ROne, RAdd(RMul(g1, g1), RMul(g2, g2))))))
    IN  <<RMul(g1, omk), RMul(g2, omk), RSub(ROne, omk)>>

\* element i of a successful call is away from the two singular cases
Regular(i) ==
    LET omk == RSub(ROne, q.kappa.vals[i])
    IN  /\ omk # RZero
        /\ RMul(omk, omk) # RAdd(RMul(q.gamma1.vals[i], q.gamma1.vals[i]),
                                 RMul(q.gamma2.vals[i], q.gamma2.vals[i]))

\* what theoryToObserved returned for element i is what the formulas give
ReturnsReduced(i) ==
    LET omk == RSub(ROne, q.kappa.vals[i])
        r   == q.ret.vals[i]
    IN  /\ r.g1 = RDiv(q.gamma1.vals[i], omk)
        /\ r.g2 = RDiv(q.gamma2.vals[i], omk)
        /\ r.mu = RDiv(ROne, RSub(RMul(omk, omk),
                                  RAdd(RMul(q.gamma1.vals[i], q.gamma1.vals[i]),
                                       RMul(q.gamma2.vals[i], q.gamma2.vals[i]))))

\* C22 as stated: away from kappa = 1 and gamma1^2 + gamma2^2 = (1-kappa)^2
\* theoryToObserved returns gamma/(1-kappa) and
\* 1/((1-kappa)^2 - |gamma|^2), and the algebraic inverse applied to what it
\* returned recovers (gamma1, gamma2, kappa).
C22_RoundTripAsStated ==
    (q.op = "theoryToObserved" /\ q.outcome = "ok") =>
        \A i \in 1 .. Len(q.kappa.vals) :
            Regular(i) =>
                /\ ReturnsReduced(i)
                /\ observedToTheory(q.ret.vals[i].g1, q.ret.vals[i].g2, q.ret.vals[i].mu)
                       = <<q.gamma1.vals[i], q.gamma2.vals[i], q.kappa.vals[i]>>

\* C22: for floats, lists, tuples and arrays of one type and one shape, and
\* away from kappa = 1 and gamma1^2 + gamma2^2 = (1-kappa)^2,
\* theoryToObserved returns gamma/(1-kappa) and
\* 1/((1-kappa)^2 - |gamma|^2) in the form of its input.  (gamma1, gamma2,
\* kappa) and (-gamma1, -gamma2, 2 - kappa) have the same image, so the
\* inverse recovers (gamma1, gamma2, kappa) for kappa < 1 and gives
\* (-gamma1, -gamma2, 2 - kappa) for kappa > 1.
C22_RoundTripBelowOne ==
    q.op = "theoryToObserved" =>
        /\ q.outcome = "ok" <=>
              /\ q.gamma1.form = q.gamma2.form /\ q.kappa.form = q.gamma1.form
              /\ Len(q.gamma1.vals) = Len(q.gamma2.vals)
              /\ Len(q.kappa.vals) = Len(q.gamma1.vals)
              /\ q.gamma1.form \in {"float", "list", "tuple", "ndarray"}
        /\ q.outcome = "ok" =>
              /\ q.ret.form = q.gamma1.form
              /\ Len(q.ret.vals) = Len(q.gamma1.vals)
              /\ \A i \in 1 .. Len(q.kappa.vals) :
                    Regular(i) =>
                       /\ ReturnsReduced(i)
                       /\ observedToTheory(q.ret.vals[i].g1, q.ret.vals[i].g2,
                                           q.ret.vals[i].mu)
                            = (IF RLess(q.kappa.vals[i], ROne)
                               THEN <<q.gamma1.vals[i], q.gamma2.vals[i], q.kappa.vals[i]>>
                               ELSE <<RSub(RZero, q.gamma1.vals[i]),
                                      RSub(RZero, q.gamma2.vals[i]),
                                      RSub(RInt(2), q.kappa.vals[i])>>)

\* a list of two elements, the first with kappa < 1 and a shear, both away
\* from the singular cases
C22_Witness ==
    /\ q.op = "theoryToObserved" /\ q.outcome = "ok"
    /\ q.ret.form = "list" /\ Len(q.ret.vals) = 2
    /\ Regular(1) /\ Regular(2)
    /\ RLess(q.kappa.vals[1], ROne) /\ q.gamma1.vals[1] # RZero
    /\ q.ret.vals[1].mu # ROne


\* C23: for an N x N image and a border B < N, _wrap_image returns an
\* (N+2B) x (N+2B) image whose pixel at offset (dx, dy) from the origin of
\* the input, for every dx, dy in -B .. N+B-1, is the input's pixel at
\* (dx mod N, dy mod N), and the input is as it was; for B >= N it raises.
\* With the default border this is the index map the periodic queries are
\* compared by.
C23_WrapIsToroidal ==
    q.op = "_wrap_image" =>
        LET b == q.im.bounds
            n == b.xmax - b.xmin + 1
            B == q.border
        IN  /\ q.outcome = "ok" <=> B < n
            /\ q.outcome = "ok" =>
                  /\ q.ret.bounds = BoundsI(b.xmin - B, b.xmax + B, b.ymin - B, b.ymax + B)
                  /\ DOMAIN q.ret.cells = Cells(q.ret.bounds)
                  /\ Cardinality(DOMAIN q.ret.cells) = (n + 2 * B) * (n + 2 * B)
                  /\ \A dx \in (-B) .. (n + B - 1), dy \in (-B) .. (n + B - 1) :
                        q.ret.cells[<<b.xmin + dx, b.ymin + dy>>]
                            = q.im.cells[<<b.xmin + (dx % n), b.ymin + (dy % n)>>]
                  /\ q.im_after = q.im
                  /\ (B = WrapBorder /\ b.xmin = 1) =>
                        \A c \in Cells(q.ret.bounds) :
                            q.ret.cells[c]
                                = q.im.cells[<<WrapSource(n, c[1]), WrapSource(n, c[2])>>]

\* a 3 x 3 image wrapped with a border of 2, its origin away from (1, 1)
C23_Witness ==
    /\ q.op = "_wrap_image" /\ q.outcome = "ok"
    /\ q.border = 2 /\ q.im.bounds.xmin = -2 /\ q.im.bounds.xmax = 0
    /\ q.ret.cells[<<-4, 2>>] = <<"pixel", 1, 1>>


\* the power array arr of the n x n realizer follows the band limit of the
\* call a for the caller's function pfn.pf: at every cell but k = 0, whose
\* power is zero by construction
FollowsBandLimit(arr, pfn, n, pixel, a) ==
    LET k_max == RDiv(RInt(a.kmax_factor * a.kmax_factor),
                      RMul(a.grid_spacing, a.grid_spacing))
    IN  \A c \in DOMAIN arr :
            c # <<0, 0>> =>
                LET qc   == QCell(c[1], c[2], n, pixel)
                    asis == PLambda([pfn EXCEPT !.bandlimit = "none"], qc)
                IN  IF a.bandlimit = "hard"
                    THEN /\ RLess(k_max, qc) => IsZeroPw(arr[c])
                         /\ RLess(qc, k_max) =>
                               /\ arr[c].raw = asis.raw /\ arr[c].conv = asis.conv
                               /\ arr[c].bl[2] = ROne
                    ELSE arr[c] = asis

\* C24: with bandlimit = 'hard' every Fourier cell with |k| above
\* k_max = kmax_factor * pi / grid_spacing has zero power and every cell with
\* |k| below k_max has the power the caller's function returns (in the
\* units of the realizer); with bandlimit = None every cell has the power
\* the function returns.
C24_HardLimitAtKMax ==
    (JustBuilt /\ bg.a.bandlimit \in {"hard", "none"}) =>
        \E f \in {self.field} :
        \E sp \in {SetPower(f.nx, f.pixel, f.pE, f.pB)} :
            /\ f.pE.pf.kind # "none" =>
                  FollowsBandLimit(sp.amplitude_E, f.pE, f.nx, f.pixel, bg.a)
            /\ f.pB.pf.kind # "none" =>
                  FollowsBandLimit(sp.amplitude_B, f.pB, f.nx, f.pixel, bg.a)


\* the kernel coordinate u, along one axis of an image of side n, is under
\* the image: within half a pixel of the pixels 1 .. n
UnderImage(n, u) ==
    LET x == RAdd(u, RInt(NominalCenter(n)))
    IN  RLeq(Rat(1, 2), x) /\ RLeq(x, RAdd(RInt(n), Rat(1, 2)))

\* C25: whenever the last buildGrid succeeded, with or without subsampleGrid
\* calls after it, the side of the stored grid times the stored
\* grid_spacing is the extent of the stored bounds, and
\* (P - center) / grid_spacing sends the positions of the bounds (checked at
\* their corners, between which the map is linear) to kernel coordinates
\* under the stored grid.
C25_GridFillsBounds ==
    (bg.status = "ok" /\ HasAttr(self, "im_g1")) =>
        LET n == self.im_g1.n
            b == self.bounds
        IN  /\ RMul(RInt(n), self.grid_spacing) = RSub(b.xmax, b.xmin)
            /\ RMul(RInt(n), self.grid_spacing) = RSub(b.ymax, b.ymin)
            /\ \A x \in {b.xmin, b.xmax}, y \in {b.ymin, b.ymax} :
                  \E u \in {KernelCoord(self, Pos(x, y))} :
                      UnderImage(n, u[1]) /\ UnderImage(n, u[2])


\* C26: whenever the last buildGrid succeeded, with or without subsampleGrid
\* calls after it, adjust_center is true exactly when the side of the
\* stored grid is even, and the stored center is the center handed to
\* buildGrid plus (0.5, 0.5) * grid_spacing in that case and the center
\* handed to buildGrid otherwise.
C26_AdjustCenterIffEven ==
    (bg.status = "ok" /\ HasAttr(self, "im_g1")) =>
        LET even == self.im_g1.n % 2 = 0
        IN  /\ self.adjust_center <=> even
            /\ self.center = (IF even
                              THEN PosAdd(bg.a.center,
                                          PosScale(Pos(Rat(1, 2), Rat(1, 2)), self.grid_spacing))
                              ELSE bg.a.center)


\* ---------------------------------------- subsampling a grid step by step
\* The instance as a successful buildGrid leaves it, for grids whose side
\* has more than one factor.
SubSides == {4, 6, WrapNgrid, 9}
SubArgs ==
    { Args(RInt(1), n, 1, 1, st) :
        n \in SubSides, st \in { st \in Styles : st.bandlimit \in {"hard", "soft"} } }
\* the calls of subsampleGrid on them: <<subsample_fac, get_convergence>>
SubCalls ==
    {<<Fac(TRUE, v), FALSE>> : v \in {2, 3, 4, 6, 8, 9}} \cup {<<Fac(TRUE, 2), TRUE>>}

InitBuilt ==
    /\ ps = PSpec(Flat, NoPF, FALSE, ROne)
    /\ \E a \in SubArgs :
       \E res \in {BuildGridCall(SelfInit, ps, a, a.rng.seed, a.rng.pos)} :
           /\ self = res.self
           /\ rng = [seed |-> a.rng.seed, pos |-> res.pos]
           /\ bg = [called |-> TRUE, a |-> a, status |-> res.status, seed |-> a.rng.seed,
                    pos0 |-> a.rng.pos, used |-> res.pos - a.rng.pos,
                    segs |-> res.segs, ret |-> res.ret]
           /\ okargs = [set |-> TRUE, a |-> a]
    /\ q = NoQ

NextSubsample ==
    \/ \E c \in SubCalls : SubsampleGrid(c[1], c[2])
    \/ Return

SpecSubsample == InitBuilt /\ [][NextSubsample]_vars

\* C27: subsampling composes.  Whatever successful subsampleGrid calls
\* followed the last successful buildGrid, the stored images, grid_spacing
\* and center are those a single subsampleGrid by the product of the factors
\* leaves on the instance as buildGrid left it, and the stored center is
\* the center handed to buildGrid plus (0.5, 0.5) * the new grid_spacing if
\* adjust_center is set and the center handed to buildGrid otherwise.
C27_SubsamplingComposes ==
    (bg.status = "ok" /\ HasAttr(self, "im_g1") /\ self.im_g1.n # bg.a.ngrid) =>
        \E built \in {BuildGridCall(SelfInit, ps, bg.a, bg.seed, bg.pos0).self} :
        \E once \in {SubsampleStore(built, built.im_g1.n \div self.im_g1.n)} :
            /\ built.im_g1.n % self.im_g1.n = 0
            /\ SubsampleOutcome(built, Fac(TRUE, built.im_g1.n \div self.im_g1.n)) = "ok"
            /\ self.im_g1 = once.im_g1 /\ self.im_g2 = once.im_g2
            /\ self.im_kappa = once.im_kappa
            /\ self.grid_spacing = once.grid_spacing
            /\ self.center = once.center
            /\ self.center = (IF self.adjust_center
                              THEN PosAdd(bg.a.center,
                                          PosScale(Pos(Rat(1, 2), Rat(1, 2)), self.grid_spacing))
                              ELSE bg.a.center)

\* the second subsampleGrid(3) on a 9 x 9 grid, whose center is not adjusted
C27_Witness ==
    /\ q.op = "subsampleGrid" /\ q.outcome = "ok" /\ q.value.v = 3
    /\ bg.a.ngrid = 9 /\ self.im_g1.n = 1 /\ ~self.adjust_center
    /\ bg.a.center # Pos(RZero, RZero)



\* ---------------------------------------- getLensing and the single queries
\* the j-th quantity the query op returns for the entry v of one position:
\* the constant appended off the bounds, or the image interpolated and the
\* coordinate handed to xValue
Component(op, j, v) ==
    IF v = Fallback THEN <<"const", FallbackOf(op)[j]>>
    ELSE <<"xValue", ImagesOf(op)[j], v.u>>

\* the quantities js of a result r of the query op, position by position,
\* with how the call ended and the container handed back
Quantities(op, js, r) ==
    [outcome |-> r.outcome, container |-> r.container,
     vals |-> [i \in 1 .. Len(r.vals) |->
                  [j \in 1 .. Len(js) |-> Component(op, js[j], r.vals[i])]]]

\* C28: on the same stored grid, positions and periodic flag, getLensing
\* returns the (g1, g2) of getShear (reduced shear) and the mu of
\* getMagnification position by position: the same interpolated image at the
\* same coordinate within the bounds or wrapped into them, the same fallback
\* constants off the bounds, and the same way of ending.
C28_LensingIsShearAndMagnification ==
    (q # NoQ /\ q.op \in QueryOps) =>
        LET lens == QueryResults(self, "getLensing", q.periodic, q.pos)
            shear == QueryResults(self, "getShear", q.periodic, q.pos)
            magn == QueryResults(self, "getMagnification", q.periodic, q.pos)
        IN  /\ {Quantities("getLensing", <<1, 2>>, r) : r \in lens}
                 = {Quantities("getShear", <<1, 2>>, r) : r \in shear}
            /\ {Quantities("getLensing", <<3>>, r) : r \in lens}
                 = {Quantities("getMagnification", <<1>>, r) : r \in magn}

\* getLensing has answered for a position off the bounds and one within them
C28_Witness ==
    /\ q # NoQ /\ q.op = "getLensing" /\ q.outcome = "ok" /\ ~q.periodic
    /\ Len(q.vals) = 2
    /\ q.vals[1] = Fallback
    /\ q.vals[2].kind = "xValue" /\ q.vals[2].u # Undefined


ResultOf(r) ==
    [outcome |-> r.outcome, vals |-> r.vals, warnings |-> r.warnings,
     container |-> r.container]

\* C30: getShear, getConvergence, getMagnification and getLensing, with any
\* of their arguments (reduced or not, periodic or not, with or without an
\* interpolant override), leave everything the instance stores unchanged:
\* the g1, g2 and kappa grids and images, grid_spacing, center, bounds and
\* the interpolant; so does handing back the result, and the same query made
\* again on the instance gives the result just returned.
C30_QueriesAreReadOnly ==
    [][ /\ (q = NoQ /\ q' # NoQ /\ q'.op \in QueryOps) =>
              /\ self' = self
              /\ ResultOf(q') \in QueryResults(self', q'.op, q'.periodic, q'.pos)
              /\ self'.grid_spacing # RZero =>
                    QueryResults(self', q'.op, q'.periodic, q'.pos) = {ResultOf(q')}
              /\ q'.outcome # "NoBuild" => q'.xinterp = XInterp(self', q'.interpolant)
              /\ q'.images = QueryImages(q'.op, q'.reduced)
        /\ (q # NoQ /\ q.op \in QueryOps /\ q' = NoQ) => self' = self
      ]_vars

\* a periodic getShear for the unreduced shear with an interpolant other than
\* the stored one has returned values
C30_Witness ==
    /\ q # NoQ /\ q.op = "getShear" /\ q.outcome = "ok"
    /\ q.periodic /\ ~q.reduced
    /\ q.interpolant = "nearest" /\ q.xinterp = "nearest"
    /\ self.interpolant = "Lanczos(5)"
    /\ q.vals[1].kind = "xValue" /\ q.vals[1].u # Undefined
=============================================================================
